---------------------------- MODULE Spec2Model ----------------------------
(***************************************************************************)
(* The YAML adapter of ytofu: a yaml.Node tree presented as an hcl.Body    *)
(* (package yamlbody), its expressions, the range utilities, the template  *)
(* restriction walker and the schema gatekeeper of package configs.        *)
(*                                                                         *)
(* Strings of the program (keys, scalar values, source bytes) are          *)
(* sequences of one-character strings, so that lengths, byte offsets and   *)
(* edit distances are computed as the code computes them.  Pointers are    *)
(* indices: a node is an index into its document's node table, a Go map    *)
(* an index into `maps`, a Go slice a (backing array, len, cap) triple.    *)
(***************************************************************************)
EXTENDS Integers, Sequences, FiniteSets, TLC

\* ------------------------------------------------------------------------
\* Bounds of the model
\* ------------------------------------------------------------------------

\* Bodies kept alive at once (the root body, remainders, block bodies).
MaxBodies == 3

\* ------------------------------------------------------------------------
\* Small helpers
\* ------------------------------------------------------------------------

\* The first of two numbers, whatever the second: an end that is not capped.
Uncapped(a, b) == a

Min2(a, b) == IF a <= b THEN a ELSE b

Min3(a, b, c) == Min2(a, Min2(b, c))

Range(s) == {s[i] : i \in 1..Len(s)}

\* The concatenation of a sequence of sequences.
RECURSIVE Concat(_)
Concat(seqs) == IF seqs = <<>> THEN <<>> ELSE Head(seqs) \o Concat(Tail(seqs))

\* The nil pointer / nil map / nil slice.
\* F applied to v: names a value that is computed once and used many times.
With(v, F(_)) == F(v)

Nil == 0

\* ------------------------------------------------------------------------
\* yaml.Node (gopkg.in/yaml.v3) as the decoder hands it to the adapter
\* ------------------------------------------------------------------------

\* Kind, Tag, Value, Style, Line, Column, Content, Alias of a yaml.Node.
N(kind, tag, value, style, line, column, content, alias) ==
  [Kind |-> kind, Tag |-> tag, Value |-> value, Style |-> style,
   Line |-> line, Column |-> column, Content |-> content, Alias |-> alias]

\* ------------------------------------------------------------------------
\* Names the code and its callers spell out
\* ------------------------------------------------------------------------

StrName == <<"n", "a", "m", "e">>

StrCount == <<"c", "o", "u", "n", "t">>

StrResource == <<"r", "e", "s", "o", "u", "r", "c", "e">>

StrLocals == <<"l", "o", "c", "a", "l", "s">>

StrVariable == <<"v", "a", "r", "i", "a", "b", "l", "e">>

StrDynamic == <<"d", "y", "n", "a", "m", "i", "c">>

StrType == <<"t", "y", "p", "e">>

StrForEach == <<"f", "o", "r", "_", "e", "a", "c", "h">>

\* attributes, a misspelt key, a comment key and a duplicate key
\*   | name: x
\*   | conut: 3
\*   | //: c
\*   | name: y
DocAttrs ==
  [src |-> <<"n", "a", "m", "e", ":", " ", "x", "\n", "c", "o", "n", "u", "t", ":", " ", "3", "\n", "/", "/", ":", " ", "c", "\n", "n", "a", "m", "e", ":", " ", "y", "\n">>,
   root |-> 1,
   nodes |-> <<
     N("Document", "", <<>>, "plain", 1, 1, <<2>>, 0),
     N("Mapping", "!!map", <<>>, "plain", 1, 1, <<3, 4, 5, 6, 7, 8, 9, 10>>, 0),
     N("Scalar", "!!str", <<"n", "a", "m", "e">>, "plain", 1, 1, <<>>, 0),
     N("Scalar", "!!str", <<"x">>, "plain", 1, 7, <<>>, 0),
     N("Scalar", "!!str", <<"c", "o", "n", "u", "t">>, "plain", 2, 1, <<>>, 0),
     N("Scalar", "!!int", <<"3">>, "plain", 2, 8, <<>>, 0),
     N("Scalar", "!!str", <<"/", "/">>, "plain", 3, 1, <<>>, 0),
     N("Scalar", "!!str", <<"c">>, "plain", 3, 5, <<>>, 0),
     N("Scalar", "!!str", <<"n", "a", "m", "e">>, "plain", 4, 1, <<>>, 0),
     N("Scalar", "!!str", <<"y">>, "plain", 4, 7, <<>>, 0)
   >>]

\* two-label blocks, a null body, a sequence body, a scalar where labels are due
\*   | resource:
\*   |   a:
\*   |     w:
\*   |       k: v
\*   |     z:
\*   |       k: u
\*   |   b:
\*   |     w: ~
\*   |     q:
\*   |       - k: v
\*   |       - s
\*   | name: x
\*   | locals:
\*   |   f: b
\*   | resource: t
\*   | dynamic: {}
DocBlocks ==
  [src |-> <<"r", "e", "s", "o", "u", "r", "c", "e", ":", "\n", " ", " ", "a", ":", "\n", " ", " ", " ", " ", "w", ":", "\n", " ", " ", " ", " ", " ", " ", "k", ":", " ", "v", "\n", " ", " ", " ", " ", "z", ":", "\n", " ", " ", " ", " ", " ", " ", "k", ":", " ", "u", "\n", " ", " ", "b", ":", "\n", " ", " ", " ", " ", "w", ":", " ", "~", "\n", " ", " ", " ", " ", "q", ":", "\n", " ", " ", " ", " ", " ", " ", "-", " ", "k", ":", " ", "v", "\n", " ", " ", " ", " ", " ", " ", "-", " ", "s", "\n", "n", "a", "m", "e", ":", " ", "x", "\n", "l", "o", "c", "a", "l", "s", ":", "\n", " ", " ", "f", ":", " ", "b", "\n", "r", "e", "s", "o", "u", "r", "c", "e", ":", " ", "t", "\n", "d", "y", "n", "a", "m", "i", "c", ":", " ", "{", "}", "\n">>,
   root |-> 1,
   nodes |-> <<
     N("Document", "", <<>>, "plain", 1, 1, <<2>>, 0),
     N("Mapping", "!!map", <<>>, "plain", 1, 1, <<3, 4, 25, 26, 27, 28, 31, 32, 33, 34>>, 0),
     N("Scalar", "!!str", <<"r", "e", "s", "o", "u", "r", "c", "e">>, "plain", 1, 1, <<>>, 0),
     N("Mapping", "!!map", <<>>, "plain", 2, 3, <<5, 6, 15, 16>>, 0),
     N("Scalar", "!!str", <<"a">>, "plain", 2, 3, <<>>, 0),
     N("Mapping", "!!map", <<>>, "plain", 3, 5, <<7, 8, 11, 12>>, 0),
     N("Scalar", "!!str", <<"w">>, "plain", 3, 5, <<>>, 0),
     N("Mapping", "!!map", <<>>, "plain", 4, 7, <<9, 10>>, 0),
     N("Scalar", "!!str", <<"k">>, "plain", 4, 7, <<>>, 0),
     N("Scalar", "!!str", <<"v">>, "plain", 4, 10, <<>>, 0),
     N("Scalar", "!!str", <<"z">>, "plain", 5, 5, <<>>, 0),
     N("Mapping", "!!map", <<>>, "plain", 6, 7, <<13, 14>>, 0),
     N("Scalar", "!!str", <<"k">>, "plain", 6, 7, <<>>, 0),
     N("Scalar", "!!str", <<"u">>, "plain", 6, 10, <<>>, 0),
     N("Scalar", "!!str", <<"b">>, "plain", 7, 3, <<>>, 0),
     N("Mapping", "!!map", <<>>, "plain", 8, 5, <<17, 18, 19, 20>>, 0),
     N("Scalar", "!!str", <<"w">>, "plain", 8, 5, <<>>, 0),
     N("Scalar", "!!null", <<"~">>, "plain", 8, 8, <<>>, 0),
     N("Scalar", "!!str", <<"q">>, "plain", 9, 5, <<>>, 0),
     N("Sequence", "!!seq", <<>>, "plain", 10, 7, <<21, 24>>, 0),
     N("Mapping", "!!map", <<>>, "plain", 10, 9, <<22, 23>>, 0),
     N("Scalar", "!!str", <<"k">>, "plain", 10, 9, <<>>, 0),
     N("Scalar", "!!str", <<"v">>, "plain", 10, 12, <<>>, 0),
     N("Scalar", "!!str", <<"s">>, "plain", 11, 9, <<>>, 0),
     N("Scalar", "!!str", <<"n", "a", "m", "e">>, "plain", 12, 1, <<>>, 0),
     N("Scalar", "!!str", <<"x">>, "plain", 12, 7, <<>>, 0),
     N("Scalar", "!!str", <<"l", "o", "c", "a", "l", "s">>, "plain", 13, 1, <<>>, 0),
     N("Mapping", "!!map", <<>>, "plain", 14, 3, <<29, 30>>, 0),
     N("Scalar", "!!str", <<"f">>, "plain", 14, 3, <<>>, 0),
     N("Scalar", "!!str", <<"b">>, "plain", 14, 6, <<>>, 0),
     N("Scalar", "!!str", <<"r", "e", "s", "o", "u", "r", "c", "e">>, "plain", 15, 1, <<>>, 0),
     N("Scalar", "!!str", <<"t">>, "plain", 15, 11, <<>>, 0),
     N("Scalar", "!!str", <<"d", "y", "n", "a", "m", "i", "c">>, "plain", 16, 1, <<>>, 0),
     N("Mapping", "!!map", <<>>, "plain", 16, 10, <<>>, 0)
   >>]

\* a four-label block whose last label level has two sibling keys
\*   | blk:
\*   |   a:
\*   |     b:
\*   |       c:
\*   |         d:
\*   |           k: v
\*   |         e:
\*   |           k: v
\*   | one:
\*   |   p:
\*   |     k: v
\*   |   q: {}
DocDeep ==
  [src |-> <<"b", "l", "k", ":", "\n", " ", " ", "a", ":", "\n", " ", " ", " ", " ", "b", ":", "\n", " ", " ", " ", " ", " ", " ", "c", ":", "\n", " ", " ", " ", " ", " ", " ", " ", " ", "d", ":", "\n", " ", " ", " ", " ", " ", " ", " ", " ", " ", " ", "k", ":", " ", "v", "\n", " ", " ", " ", " ", " ", " ", " ", " ", "e", ":", "\n", " ", " ", " ", " ", " ", " ", " ", " ", " ", " ", "k", ":", " ", "v", "\n", "o", "n", "e", ":", "\n", " ", " ", "p", ":", "\n", " ", " ", " ", " ", "k", ":", " ", "v", "\n", " ", " ", "q", ":", " ", "{", "}", "\n">>,
   root |-> 1,
   nodes |-> <<
     N("Document", "", <<>>, "plain", 1, 1, <<2>>, 0),
     N("Mapping", "!!map", <<>>, "plain", 1, 1, <<3, 4, 19, 20>>, 0),
     N("Scalar", "!!str", <<"b", "l", "k">>, "plain", 1, 1, <<>>, 0),
     N("Mapping", "!!map", <<>>, "plain", 2, 3, <<5, 6>>, 0),
     N("Scalar", "!!str", <<"a">>, "plain", 2, 3, <<>>, 0),
     N("Mapping", "!!map", <<>>, "plain", 3, 5, <<7, 8>>, 0),
     N("Scalar", "!!str", <<"b">>, "plain", 3, 5, <<>>, 0),
     N("Mapping", "!!map", <<>>, "plain", 4, 7, <<9, 10>>, 0),
     N("Scalar", "!!str", <<"c">>, "plain", 4, 7, <<>>, 0),
     N("Mapping", "!!map", <<>>, "plain", 5, 9, <<11, 12, 15, 16>>, 0),
     N("Scalar", "!!str", <<"d">>, "plain", 5, 9, <<>>, 0),
     N("Mapping", "!!map", <<>>, "plain", 6, 11, <<13, 14>>, 0),
     N("Scalar", "!!str", <<"k">>, "plain", 6, 11, <<>>, 0),
     N("Scalar", "!!str", <<"v">>, "plain", 6, 14, <<>>, 0),
     N("Scalar", "!!str", <<"e">>, "plain", 7, 9, <<>>, 0),
     N("Mapping", "!!map", <<>>, "plain", 8, 11, <<17, 18>>, 0),
     N("Scalar", "!!str", <<"k">>, "plain", 8, 11, <<>>, 0),
     N("Scalar", "!!str", <<"v">>, "plain", 8, 14, <<>>, 0),
     N("Scalar", "!!str", <<"o", "n", "e">>, "plain", 9, 1, <<>>, 0),
     N("Mapping", "!!map", <<>>, "plain", 10, 3, <<21, 22, 25, 26>>, 0),
     N("Scalar", "!!str", <<"p">>, "plain", 10, 3, <<>>, 0),
     N("Mapping", "!!map", <<>>, "plain", 11, 5, <<23, 24>>, 0),
     N("Scalar", "!!str", <<"k">>, "plain", 11, 5, <<>>, 0),
     N("Scalar", "!!str", <<"v">>, "plain", 11, 8, <<>>, 0),
     N("Scalar", "!!str", <<"q">>, "plain", 12, 3, <<>>, 0),
     N("Mapping", "!!map", <<>>, "plain", 12, 6, <<>>, 0)
   >>]

\* scalars of every resolved tag, templates, a binary scalar, an unclosed template
\*   | s: hi
\*   | n: 42
\*   | t: true
\*   | z: ~
\*   | h: 0x1F
\*   | v: "a${v.x}"
\*   | f: "${f(v)}"
\*   | c: "${v?a:b}"
\*   | b: !!binary ${v}
\*   | l:
\*   |   - '${g()}'
\*   |   - 7
\*   | u: "${"
DocExprs ==
  [src |-> <<"s", ":", " ", "h", "i", "\n", "n", ":", " ", "4", "2", "\n", "t", ":", " ", "t", "r", "u", "e", "\n", "z", ":", " ", "~", "\n", "h", ":", " ", "0", "x", "1", "F", "\n", "v", ":", " ", "\"", "a", "$", "{", "v", ".", "x", "}", "\"", "\n", "f", ":", " ", "\"", "$", "{", "f", "(", "v", ")", "}", "\"", "\n", "c", ":", " ", "\"", "$", "{", "v", "?", "a", ":", "b", "}", "\"", "\n", "b", ":", " ", "!", "!", "b", "i", "n", "a", "r", "y", " ", "$", "{", "v", "}", "\n", "l", ":", "\n", " ", " ", "-", " ", "'", "$", "{", "g", "(", ")", "}", "'", "\n", " ", " ", "-", " ", "7", "\n", "u", ":", " ", "\"", "$", "{", "\"", "\n">>,
   root |-> 1,
   nodes |-> <<
     N("Document", "", <<>>, "plain", 1, 1, <<2>>, 0),
     N("Mapping", "!!map", <<>>, "plain", 1, 1, <<3, 4, 5, 6, 7, 8, 9, 10, 11, 12, 13, 14, 15, 16, 17, 18, 19, 20, 21, 22, 25, 26>>, 0),
     N("Scalar", "!!str", <<"s">>, "plain", 1, 1, <<>>, 0),
     N("Scalar", "!!str", <<"h", "i">>, "plain", 1, 4, <<>>, 0),
     N("Scalar", "!!str", <<"n">>, "plain", 2, 1, <<>>, 0),
     N("Scalar", "!!int", <<"4", "2">>, "plain", 2, 4, <<>>, 0),
     N("Scalar", "!!str", <<"t">>, "plain", 3, 1, <<>>, 0),
     N("Scalar", "!!bool", <<"t", "r", "u", "e">>, "plain", 3, 4, <<>>, 0),
     N("Scalar", "!!str", <<"z">>, "plain", 4, 1, <<>>, 0),
     N("Scalar", "!!null", <<"~">>, "plain", 4, 4, <<>>, 0),
     N("Scalar", "!!str", <<"h">>, "plain", 5, 1, <<>>, 0),
     N("Scalar", "!!int", <<"0", "x", "1", "F">>, "plain", 5, 4, <<>>, 0),
     N("Scalar", "!!str", <<"v">>, "plain", 6, 1, <<>>, 0),
     N("Scalar", "!!str", <<"a", "$", "{", "v", ".", "x", "}">>, "double", 6, 4, <<>>, 0),
     N("Scalar", "!!str", <<"f">>, "plain", 7, 1, <<>>, 0),
     N("Scalar", "!!str", <<"$", "{", "f", "(", "v", ")", "}">>, "double", 7, 4, <<>>, 0),
     N("Scalar", "!!str", <<"c">>, "plain", 8, 1, <<>>, 0),
     N("Scalar", "!!str", <<"$", "{", "v", "?", "a", ":", "b", "}">>, "double", 8, 4, <<>>, 0),
     N("Scalar", "!!str", <<"b">>, "plain", 9, 1, <<>>, 0),
     N("Scalar", "!!binary", <<"$", "{", "v", "}">>, "plain", 9, 4, <<>>, 0),
     N("Scalar", "!!str", <<"l">>, "plain", 10, 1, <<>>, 0),
     N("Sequence", "!!seq", <<>>, "plain", 11, 3, <<23, 24>>, 0),
     N("Scalar", "!!str", <<"$", "{", "g", "(", ")", "}">>, "single", 11, 5, <<>>, 0),
     N("Scalar", "!!int", <<"7">>, "plain", 12, 5, <<>>, 0),
     N("Scalar", "!!str", <<"u">>, "plain", 13, 1, <<>>, 0),
     N("Scalar", "!!str", <<"$", "{">>, "double", 13, 4, <<>>, 0)
   >>]

\* the blocks and meta-arguments the gatekeeper looks for
\*   | variable:
\*   |   r: {}
\*   | locals:
\*   |   f: b
\*   | resource:
\*   |   a:
\*   |     w:
\*   |       count: 2
\*   |       for_each: x
\*   | dynamic: {}
DocFile ==
  [src |-> <<"v", "a", "r", "i", "a", "b", "l", "e", ":", "\n", " ", " ", "r", ":", " ", "{", "}", "\n", "l", "o", "c", "a", "l", "s", ":", "\n", " ", " ", "f", ":", " ", "b", "\n", "r", "e", "s", "o", "u", "r", "c", "e", ":", "\n", " ", " ", "a", ":", "\n", " ", " ", " ", " ", "w", ":", "\n", " ", " ", " ", " ", " ", " ", "c", "o", "u", "n", "t", ":", " ", "2", "\n", " ", " ", " ", " ", " ", " ", "f", "o", "r", "_", "e", "a", "c", "h", ":", " ", "x", "\n", "d", "y", "n", "a", "m", "i", "c", ":", " ", "{", "}", "\n">>,
   root |-> 1,
   nodes |-> <<
     N("Document", "", <<>>, "plain", 1, 1, <<2>>, 0),
     N("Mapping", "!!map", <<>>, "plain", 1, 1, <<3, 4, 7, 8, 11, 12, 21, 22>>, 0),
     N("Scalar", "!!str", <<"v", "a", "r", "i", "a", "b", "l", "e">>, "plain", 1, 1, <<>>, 0),
     N("Mapping", "!!map", <<>>, "plain", 2, 3, <<5, 6>>, 0),
     N("Scalar", "!!str", <<"r">>, "plain", 2, 3, <<>>, 0),
     N("Mapping", "!!map", <<>>, "plain", 2, 6, <<>>, 0),
     N("Scalar", "!!str", <<"l", "o", "c", "a", "l", "s">>, "plain", 3, 1, <<>>, 0),
     N("Mapping", "!!map", <<>>, "plain", 4, 3, <<9, 10>>, 0),
     N("Scalar", "!!str", <<"f">>, "plain", 4, 3, <<>>, 0),
     N("Scalar", "!!str", <<"b">>, "plain", 4, 6, <<>>, 0),
     N("Scalar", "!!str", <<"r", "e", "s", "o", "u", "r", "c", "e">>, "plain", 5, 1, <<>>, 0),
     N("Mapping", "!!map", <<>>, "plain", 6, 3, <<13, 14>>, 0),
     N("Scalar", "!!str", <<"a">>, "plain", 6, 3, <<>>, 0),
     N("Mapping", "!!map", <<>>, "plain", 7, 5, <<15, 16>>, 0),
     N("Scalar", "!!str", <<"w">>, "plain", 7, 5, <<>>, 0),
     N("Mapping", "!!map", <<>>, "plain", 8, 7, <<17, 18, 19, 20>>, 0),
     N("Scalar", "!!str", <<"c", "o", "u", "n", "t">>, "plain", 8, 7, <<>>, 0),
     N("Scalar", "!!int", <<"2">>, "plain", 8, 14, <<>>, 0),
     N("Scalar", "!!str", <<"f", "o", "r", "_", "e", "a", "c", "h">>, "plain", 9, 7, <<>>, 0),
     N("Scalar", "!!str", <<"x">>, "plain", 9, 17, <<>>, 0),
     N("Scalar", "!!str", <<"d", "y", "n", "a", "m", "i", "c">>, "plain", 10, 1, <<>>, 0),
     N("Mapping", "!!map", <<>>, "plain", 10, 10, <<>>, 0)
   >>]

\* The root parseYAML synthesises when the stream holds no non-empty
\* document: a document node with one empty mapping, every other field zero.
DocEmpty ==
  [src |-> <<>>,
   root |-> 1,
   nodes |-> <<
     N("Document", "", <<>>, "plain", 0, 0, <<2>>, 0),
     N("Mapping", "", <<>>, "plain", 0, 0, <<>>, 0)
   >>]

\* The documents the model is run on.
Docs == <<DocAttrs, DocBlocks, DocDeep, DocExprs, DocEmpty, DocFile>>

\* ------------------------------------------------------------------------
\* Range utilities (range.go)
\* ------------------------------------------------------------------------

Pos(line, column, byte) == [Line |-> line, Column |-> column, Byte |-> byte]

\* hcl.Range{Filename: filename}: both positions zero.
ZeroRange == [Start |-> Pos(0, 0, 0), End |-> Pos(0, 0, 0)]

\* The 1-based positions of the newline bytes among the first n bytes of src.
Newlines(src, n) == {j \in 1..n : src[j] = "\n"}

\* byteOffsetForLineCol taking the column as 0-based.
byteOffsetForLineColZeroBased(src, line, col) ==
  IF line < 1 \/ col < 1 THEN 0
  ELSE LET nl     == Newlines(src, Len(src))
           starts == IF line = 1 THEN {0}
                     ELSE {j \in nl : Cardinality({k \in nl : k <= j}) = line - 1}
       IN  IF starts = {} THEN Len(src)
           ELSE LET i == CHOOSE j \in starts : TRUE
                IN  IF i >= Len(src) \/ i + col > Len(src) THEN Len(src) ELSE i + col

\* byteOffsetForLineCol scans src until currentLine = line: the scan reaches
\* the target line at the byte after the (line-1)-th newline, if that byte
\* exists; when the loop runs off the end the result is len(src).
byteOffsetForLineCol(src, line, col) ==
  IF line < 1 \/ col < 1 THEN 0
  ELSE LET nl     == Newlines(src, Len(src))
           starts == IF line = 1 THEN {0}
                     ELSE {j \in nl : Cardinality({k \in nl : k <= j}) = line - 1}
       IN  IF starts = {} THEN Len(src)
           ELSE LET i == CHOOSE j \in starts : TRUE
                    targetOffset == i + (col - 1)
                IN  IF i >= Len(src) THEN Len(src)
                    ELSE IF targetOffset > Len(src) THEN Len(src)
                    ELSE targetOffset

\* lineColForByteOffset counts the newlines before offset and remembers the
\* 0-based index of the last one (-1 when there is none).
lineColForByteOffset(src, offset) ==
  LET off == IF offset > Len(src) THEN Len(src) ELSE offset
      nl  == Newlines(src, off)
      lastNewline == IF nl = {} THEN -1
                     ELSE (CHOOSE j \in nl : \A k \in nl : k <= j) - 1
  IN  [line |-> 1 + Cardinality(nl), col |-> off - lastNewline]

RECURSIVE calculateEndPos(_, _, _)
calculateEndPos(D, n, startByte) ==
  LET node == D.nodes[n] IN
  CASE node.Kind = "Scalar" ->
         LET valueLen == Len(node.Value)
                         + (IF node.Style \in {"double", "single"} THEN 2 ELSE 0)
             endByte  == Min2(startByte + valueLen, Len(D.src))
             lc       == lineColForByteOffset(D.src, endByte)
         IN  Pos(lc.line, lc.col, endByte)
    [] node.Kind \in {"Mapping", "Sequence", "Document"} ->
         IF Len(node.Content) > 0
         THEN LET lastChild == node.Content[Len(node.Content)]
                  lc        == D.nodes[lastChild]
              IN  calculateEndPos(D, lastChild,
                                  byteOffsetForLineCol(D.src, lc.Line, lc.Column))
         ELSE Pos(node.Line, node.Column, startByte)
    [] OTHER -> Pos(node.Line, node.Column, startByte)

nodeRange(D, n) ==
  IF n = Nil THEN ZeroRange
  ELSE LET node      == D.nodes[n]
           startByte == byteOffsetForLineCol(D.src, node.Line, node.Column)
       IN  [Start |-> Pos(node.Line, node.Column, startByte),
            End   |-> calculateEndPos(D, n, startByte)]

nodeStartRange(D, n) ==
  IF n = Nil THEN ZeroRange
  ELSE LET node == D.nodes[n]
           pos  == Pos(node.Line, node.Column,
                       byteOffsetForLineCol(D.src, node.Line, node.Column))
       IN  [Start |-> pos, End |-> pos]

\* rangeBetween with its two nodes taken the other way round.
rangeBetweenSwapped(D, startNode, endNode) ==
  [Start |-> nodeRange(D, endNode).Start, End |-> nodeRange(D, startNode).End]

rangeBetween(D, startNode, endNode) ==
  [Start |-> nodeRange(D, startNode).Start, End |-> nodeRange(D, endNode).End]

\* ------------------------------------------------------------------------
\* Go slices and append: a slice is a window on a backing array; append
\* writes in place while len < cap and otherwise moves to a larger array.
\* ------------------------------------------------------------------------

NilSlice == [arr |-> Nil, len |-> 0, cap |-> 0]

SliceElems(arrays, s) ==
  IF s.len = 0 THEN <<>> ELSE SubSeq(arrays[s.arr], 1, s.len)

GoAppend(arrays, s, x, zero) ==
  IF s.len < s.cap
  THEN [arrays |-> [arrays EXCEPT ![s.arr] = [@ EXCEPT ![s.len + 1] = x]],
        slice  |-> [arr |-> s.arr, len |-> s.len + 1, cap |-> s.cap]]
  ELSE LET newcap == IF s.cap = 0 THEN 1 ELSE 2 * s.cap
           old    == SliceElems(arrays, s)
           fresh  == old \o <<x>> \o [i \in 1..(newcap - s.len - 1) |-> zero]
       IN  [arrays |-> Append(arrays, fresh),
            slice  |-> [arr |-> Len(arrays) + 1, len |-> s.len + 1, cap |-> newcap]]

\* labels := labelsUsed: the stored slice shares the recursion's buffer.
MakeAlias(arrays, s) == [arrays |-> arrays, slice |-> s]

\* make([]T, len(s)); copy(dst, s)
MakeCopy(arrays, s) ==
  [arrays |-> Append(arrays, SliceElems(arrays, s)),
   slice  |-> [arr |-> Len(arrays) + 1, len |-> s.len, cap |-> s.len]]

\* ------------------------------------------------------------------------
\* Diagnostics
\* ------------------------------------------------------------------------

\* A diagnostic without a subject range.
NoSubject == [Start |-> Pos(-1, -1, -1), End |-> Pos(-1, -1, -1)]

\* Summary and Subject of an hcl.Diagnostic; Name and Suggestion are the
\* values formatted into its Detail.
Diag(summary, subject, name, suggestion) ==
  [Summary |-> summary, Subject |-> subject, Name |-> name, Suggestion |-> suggestion]

\* ------------------------------------------------------------------------
\* Name suggestions (body.go)
\* ------------------------------------------------------------------------

\* Least element of a non-empty set of integers.
MinOf(S) == CHOOSE m \in S : \A x \in S : m <= x

\* One pass of the inner loop, for row i: rows are sequences whose position
\* j+1 holds index j.  The loop sets curr[0] = i and
\* curr[j] = min(prev[j]+1, curr[j-1]+1, prev[j-1]+cost); unrolling the
\* curr[j-1]+1 term, curr[j] is the least of i + j and, for k in 1..j,
\* min(prev[k]+1, prev[k-1]+cost(k)) + (j - k).
levRow(a, b, i, prev) ==
  LET cost(k) == IF a[i] # b[k] THEN 1 ELSE 0
      step(k) == Min2(prev[k + 1] + 1, prev[k] + cost(k))
      cell(j) == MinOf({i + j} \cup {step(k) + (j - k) : k \in 1..j})
  IN  <<i>> \o [j \in 1..Len(b) |-> cell(j)]

\* The outer loop from row i on; prev is row i-1.
RECURSIVE levRows(_, _, _, _)
levRows(a, b, i, prev) ==
  IF i > Len(a) THEN prev
  ELSE levRows(a, b, i + 1, levRow(a, b, i, prev))

\* The difference of the lengths only.
lengthDifference(a, b) ==
  IF Len(a) >= Len(b) THEN Len(a) - Len(b) ELSE Len(b) - Len(a)

levenshteinDistance(a, b) ==
  IF Len(a) = 0 THEN Len(b)
  ELSE IF Len(b) = 0 THEN Len(a)
  ELSE levRows(a, b, 1, <<0>> \o [j \in 1..Len(b) |-> j])[Len(b) + 1]

\* The first suggestion within distance 2, or "" when there is none.
nameSuggestion(given, suggestions) ==
  LET near == {k \in 1..Len(suggestions) :
                 levenshteinDistance(given, suggestions[k]) <= 2}
  IN  IF near = {} THEN <<>> ELSE suggestions[MinOf(near)]

\* ------------------------------------------------------------------------
\* The body adapter (body.go)
\* ------------------------------------------------------------------------

StrNull == <<"n", "u", "l", "l">>

StrTilde == <<"~">>

StrComment == <<"/", "/">>

\* &body{node, filename, src, hiddenAttrs}; dyn is the dynamic type behind
\* the hcl.Body interface value.
Body(node, hiddenAttrs) ==
  [dyn |-> "*yamlbody.body", node |-> node, hiddenAttrs |-> hiddenAttrs]

\* Every hcl.Body counts as a YAML body.
IsAnyBody(maybeYAMLBody) == maybeYAMLBody.dyn \in {"*yamlbody.body", "*hclsyntax.Body"}

IsYAMLBody(maybeYAMLBody) == maybeYAMLBody.dyn = "*yamlbody.body"

\* NewBody without the unwrapping of a document node.
NewBodyKeepsDocument(D, node) == Body(node, Nil)

NewBody(D, node) ==
  IF node # Nil /\ D.nodes[node].Kind = "Document" /\ Len(D.nodes[node].Content) > 0
  THEN Body(D.nodes[node].Content[1], Nil)
  ELSE Body(node, Nil)

\* b.hiddenAttrs[name]: a nil map has no entries.
Hidden(maps, b) == IF b.hiddenAttrs = Nil THEN {} ELSE maps[b.hiddenAttrs]

\* The range at the start of the body's node.
MissingItemRangeAtStart(D, b) == nodeStartRange(D, b.node)

MissingItemRange(D, b) ==
  IF b.node = Nil THEN ZeroRange
  ELSE LET r == nodeRange(D, b.node) IN [Start |-> r.End, End |-> r.End]

collectAttrs(D, b) ==
  IF b.node = Nil \/ D.nodes[b.node].Kind # "Mapping" THEN <<>>
  ELSE LET c == D.nodes[b.node].Content
       IN  [i \in 1..(Len(c) \div 2) |->
              [keyNode |-> c[2 * i - 1], valNode |-> c[2 * i]]]

\* The same with bodies that are not of the adapter's type.
RECURSIVE unpackSequenceForeign(_, _, _, _, _, _, _)
unpackSequenceForeign(D, items, typeName, typeRange, labels, labelR, blocks) ==
  IF items = <<>> THEN blocks
  ELSE unpackSequenceForeign(D, Tail(items), typeName, typeRange, labels, labelR,
         Append(blocks, [Type |-> typeName, Labels |-> labels,
                         Body |-> [Body(Head(items), Nil) EXCEPT !.dyn = "*hclsyntax.Body"],
                         DefRange |-> nodeRange(D, Head(items)),
                         TypeRange |-> typeRange, LabelRanges |-> labelR]))

\* The blocks appended for the items of a sequence-valued block body.
RECURSIVE unpackSequence(_, _, _, _, _, _, _)
unpackSequence(D, items, typeName, typeRange, labels, labelR, blocks) ==
  IF items = <<>> THEN blocks
  ELSE unpackSequence(D, Tail(items), typeName, typeRange, labels, labelR,
         Append(blocks, [Type |-> typeName, Labels |-> labels, Body |-> Body(Head(items), Nil),
                         DefRange |-> nodeRange(D, Head(items)),
                         TypeRange |-> typeRange, LabelRanges |-> labelR]))

\* unpackContent with the range of the block-type key as definition range.
unpackContentDefAtKey(D, v, typeName, typeRange, labelsUsed, labelRanges, st) ==
  LET c1     == MakeCopy(st.arrays, labelsUsed)
      labels == c1.slice
      c2     == MakeCopy(c1.arrays, labelRanges)
      labelR == c2.slice
      node   == D.nodes[v]
      block(n) == [Type |-> typeName, Labels |-> labels, Body |-> Body(n, Nil),
                   DefRange |-> typeRange,
                   TypeRange |-> typeRange, LabelRanges |-> labelR]
  IN  CASE node.Kind = "Scalar" ->
             IF node.Tag = "!!null" \/ node.Value = StrNull
                \/ node.Value = StrTilde \/ node.Value = <<>>
             THEN [arrays |-> c2.arrays, blocks |-> st.blocks, diags |-> <<>>]
             ELSE [arrays |-> c2.arrays, blocks |-> st.blocks,
                   diags |-> <<Diag("Incorrect YAML value type",
                                    nodeStartRange(D, v), <<>>, <<>>)>>]
        [] node.Kind = "Mapping" ->
             [arrays |-> c2.arrays, blocks |-> Append(st.blocks, block(v)),
              diags |-> <<>>]
        [] node.Kind = "Sequence" ->
             [arrays |-> c2.arrays,
              blocks |-> unpackSequence(D, node.Content, typeName, typeRange,
                                        labels, labelR, st.blocks),
              diags |-> <<>>]
        [] OTHER ->
             [arrays |-> c2.arrays, blocks |-> st.blocks, diags |-> <<>>]

\* unpackBlock with no labels left: v is the block content.  st holds the
\* backing arrays of the label slices and the *blocks list; the result adds
\* the diagnostics returned.
unpackContent(D, v, typeName, typeRange, labelsUsed, labelRanges, st) ==
  LET c1     == MakeCopy(st.arrays, labelsUsed)
      labels == c1.slice
      c2     == MakeCopy(c1.arrays, labelRanges)
      labelR == c2.slice
      node   == D.nodes[v]
      block(n) == [Type |-> typeName, Labels |-> labels, Body |-> Body(n, Nil),
                   DefRange |-> nodeRange(D, n),
                   TypeRange |-> typeRange, LabelRanges |-> labelR]
  IN  CASE node.Kind = "Scalar" ->
             IF node.Tag = "!!null" \/ node.Value = StrNull
                \/ node.Value = StrTilde \/ node.Value = <<>>
             THEN [arrays |-> c2.arrays, blocks |-> st.blocks, diags |-> <<>>]
             ELSE [arrays |-> c2.arrays, blocks |-> st.blocks,
                   diags |-> <<Diag("Incorrect YAML value type",
                                    nodeStartRange(D, v), <<>>, <<>>)>>]
        [] node.Kind = "Mapping" ->
             [arrays |-> c2.arrays, blocks |-> Append(st.blocks, block(v)),
              diags |-> <<>>]
        [] node.Kind = "Sequence" ->
             [arrays |-> c2.arrays,
              blocks |-> unpackSequence(D, node.Content, typeName, typeRange,
                                        labels, labelR, st.blocks),
              diags |-> <<>>]
        [] OTHER ->
             [arrays |-> c2.arrays, blocks |-> st.blocks, diags |-> <<>>]

RECURSIVE unpackBlock(_, _, _, _, _, _, _, _)
RECURSIVE unpackLabels(_, _, _, _, _, _, _, _, _)

\* The loop of unpackBlock leaving at the first entry that returns a
\* diagnostic.
RECURSIVE unpackLabelsUntilError(_, _, _, _, _, _, _, _, _)
unpackLabelsUntilError(D, v, i, typeName, typeRange, labelsLeft, labelsUsed, labelRanges, st) ==
  LET content == D.nodes[v].Content IN
  IF i + 1 >= Len(content) THEN st
  ELSE LET keyNode == content[i + 1]
           valNode == content[i + 2]
           a1 == GoAppend(st.arrays, labelsUsed, D.nodes[keyNode].Value, <<>>)
           a2 == GoAppend(a1.arrays, labelRanges, nodeRange(D, keyNode), ZeroRange)
       IN  With(unpackBlock(D, valNode, typeName, typeRange, Tail(labelsLeft),
                            a1.slice, a2.slice,
                            [arrays |-> a2.arrays, blocks |-> st.blocks]),
                LAMBDA r :
                  IF r.diags # <<>>
                  THEN [arrays |-> r.arrays, blocks |-> r.blocks,
                        diags |-> st.diags \o r.diags]
                  ELSE unpackLabelsUntilError(D, v, i + 2, typeName, typeRange,
                                              labelsLeft, labelsUsed, labelRanges,
                                              [arrays |-> r.arrays, blocks |-> r.blocks,
                                               diags |-> st.diags]))

\* The loop of unpackBlock over the entries of a label-level mapping, at
\* 0-based index i; st.diags accumulates the diagnostics of the entries.
unpackLabels(D, v, i, typeName, typeRange, labelsLeft, labelsUsed, labelRanges, st) ==
  LET content == D.nodes[v].Content IN
  IF i + 1 >= Len(content) THEN st
  ELSE LET keyNode == content[i + 1]
           valNode == content[i + 2]
           a1 == GoAppend(st.arrays, labelsUsed, D.nodes[keyNode].Value, <<>>)
           a2 == GoAppend(a1.arrays, labelRanges, nodeRange(D, keyNode), ZeroRange)
       IN  With(unpackBlock(D, valNode, typeName, typeRange, Tail(labelsLeft),
                            a1.slice, a2.slice,
                            [arrays |-> a2.arrays, blocks |-> st.blocks]),
                LAMBDA r :
                  unpackLabels(D, v, i + 2, typeName, typeRange, labelsLeft,
                               labelsUsed, labelRanges,
                               [arrays |-> r.arrays, blocks |-> r.blocks,
                                diags |-> st.diags \o r.diags]))

unpackBlock(D, v, typeName, typeRange, labelsLeft, labelsUsed, labelRanges, st) ==
  IF Len(labelsLeft) > 0
  THEN IF v = Nil \/ D.nodes[v].Kind # "Mapping"
       THEN [arrays |-> st.arrays, blocks |-> st.blocks,
             diags |-> <<Diag("Missing block label", nodeStartRange(D, v),
                              typeName, Head(labelsLeft))>>]
       ELSE unpackLabels(D, v, 0, typeName, typeRange, labelsLeft,
                         labelsUsed, labelRanges,
                         [arrays |-> st.arrays, blocks |-> st.blocks, diags |-> <<>>])
  ELSE unpackContent(D, v, typeName, typeRange, labelsUsed, labelRanges, st)

\* hcl.BodySchema lookups: the maps built from the schema's lists (a later
\* entry of the same name replaces an earlier one).
AttrNames(schema) == {schema.Attributes[i].Name : i \in 1..Len(schema.Attributes)}

BlockTypes(schema) == {schema.Blocks[i].Type : i \in 1..Len(schema.Blocks)}

attrSchemas(schema) ==
  [n \in AttrNames(schema) |->
     LET last == CHOOSE i \in 1..Len(schema.Attributes) :
                   /\ schema.Attributes[i].Name = n
                   /\ \A j \in (i + 1)..Len(schema.Attributes) :
                        schema.Attributes[j].Name # n
     IN  schema.Attributes[last]]

blockSchemas(schema) ==
  [n \in BlockTypes(schema) |->
     LET last == CHOOSE i \in 1..Len(schema.Blocks) :
                   /\ schema.Blocks[i].Type = n
                   /\ \A j \in (i + 1)..Len(schema.Blocks) :
                        schema.Blocks[j].Type # n
     IN  schema.Blocks[last]]

\* usedNames := b.hiddenAttrs: the remainder shares the map of its origin.
CopyHiddenShared(maps, b) ==
  IF b.hiddenAttrs = Nil
  THEN [maps |-> Append(maps, {}), id |-> Len(maps) + 1]
  ELSE [maps |-> maps, id |-> b.hiddenAttrs]

\* usedNames := make(map) without the copy loop: the remainder forgets the
\* names hidden in its origin.
CopyHiddenForgets(maps, b) ==
  [maps |-> Append(maps, {}), id |-> Len(maps) + 1]

\* usedNames := make(map); for k := range b.hiddenAttrs { usedNames[k] = ... }
\* The new map is maps[Len(maps) + 1].
CopyHidden(maps, b) ==
  [maps |-> Append(maps, Hidden(maps, b)), id |-> Len(maps) + 1]

\* m[name] = struct{}{}
MapAdd(maps, id, name) == [maps EXCEPT ![id] = @ \cup {name}]

\* An attribute map with one more entry.
WithAttr(attributes, name, attr) ==
  [n \in DOMAIN attributes \cup {name} |-> IF n = name THEN attr ELSE attributes[n]]

\* The loop of PartialContent over the collected entries, at 1-based index i.
\* st: maps, usedNames (a map), arrays, Attributes, Blocks, diags.
RECURSIVE processAttrs(_, _, _, _, _)
processAttrs(D, b, schema, i, st) ==
  LET attrs == collectAttrs(D, b) IN
  IF i > Len(attrs) THEN st
  ELSE LET attr     == attrs[i]
           attrName == D.nodes[attr.keyNode].Value
           keyRange == nodeRange(D, attr.keyNode)
       IN  IF attrName \in Hidden(st.maps, b)
           THEN processAttrs(D, b, schema, i + 1, st)
           ELSE IF attrName \in DOMAIN attrSchemas(schema)
           THEN IF attrName \in DOMAIN st.Attributes
                THEN processAttrs(D, b, schema, i + 1,
                       [st EXCEPT !.diags =
                          Append(@, Diag("Duplicate argument", keyRange, attrName, <<>>))])
                ELSE processAttrs(D, b, schema, i + 1,
                       [st EXCEPT
                          !.Attributes = WithAttr(@, attrSchemas(schema)[attrName].Name,
                             [Name      |-> attrSchemas(schema)[attrName].Name,
                              Expr      |-> attr.valNode,
                              Range     |-> rangeBetween(D, attr.keyNode, attr.valNode),
                              NameRange |-> keyRange]),
                          !.maps = MapAdd(@, st.usedNames, attrName)])
           ELSE IF attrName \in DOMAIN blockSchemas(schema)
           THEN LET blockS == blockSchemas(schema)[attrName]
                IN  With(unpackBlock(D, attr.valNode, blockS.Type, keyRange,
                                     blockS.LabelNames, NilSlice, NilSlice,
                                     [arrays |-> st.arrays, blocks |-> st.Blocks]),
                         LAMBDA r :
                           processAttrs(D, b, schema, i + 1,
                             [st EXCEPT !.arrays = r.arrays,
                                        !.Blocks = r.blocks,
                                        !.diags  = @ \o r.diags,
                                        !.maps   = MapAdd(@, st.usedNames, attrName)]))
           ELSE processAttrs(D, b, schema, i + 1, st)

\* The loop of PartialContent over the schema's attributes.
RECURSIVE requiredDiags(_, _, _, _)
requiredDiags(D, b, attrSs, attributes) ==
  IF attrSs = <<>> THEN <<>>
  ELSE (IF Head(attrSs).Required /\ Head(attrSs).Name \notin DOMAIN attributes
        THEN <<Diag("Missing required argument", MissingItemRange(D, b),
                    Head(attrSs).Name, <<>>)>>
        ELSE <<>>)
       \o requiredDiags(D, b, Tail(attrSs), attributes)

\* The caller's view of a block: its label slices read through their
\* backing arrays.
ReadBlock(arrays, blk) ==
  [Type |-> blk.Type, Labels |-> SliceElems(arrays, blk.Labels), Body |-> blk.Body,
   DefRange |-> blk.DefRange, TypeRange |-> blk.TypeRange,
   LabelRanges |-> SliceElems(arrays, blk.LabelRanges)]

\* PartialContent: the content, the remainder body, the diagnostics, and the
\* Go maps after the call (the remainder's hidden names is a new one).
PartialContent(D, maps, b, schema) ==
  LET used == CopyHidden(maps, b)
  IN  With(processAttrs(D, b, schema, 1,
             [maps |-> used.maps, usedNames |-> used.id, arrays |-> <<>>,
              Attributes |-> <<>>, Blocks |-> <<>>, diags |-> <<>>]),
           LAMBDA st :
             [content |-> [Attributes |-> st.Attributes,
                           Blocks |-> [k \in 1..Len(st.Blocks) |->
                                         ReadBlock(st.arrays, st.Blocks[k])],
                           MissingItemRange |-> MissingItemRange(D, b)],
              unusedBody |-> Body(b.node, st.usedNames),
              diags |-> st.diags \o requiredDiags(D, b, schema.Attributes, st.Attributes),
              maps |-> st.maps])

\* The names Content offers as suggestions.
RECURSIVE attrSuggestions(_, _)
attrSuggestions(attrSs, hiddenAttrs) ==
  IF attrSs = <<>> THEN <<>>
  ELSE (IF Head(attrSs).Name \notin hiddenAttrs THEN <<Head(attrSs).Name>> ELSE <<>>)
       \o attrSuggestions(Tail(attrSs), hiddenAttrs)

\* The loop of Content without the test for the comment key.
RECURSIVE extraneousDiagsNoComment(_, _, _, _)
extraneousDiagsNoComment(D, attrs, hiddenAttrs, nameSuggestions) ==
  IF attrs = <<>> THEN <<>>
  ELSE LET name == D.nodes[Head(attrs).keyNode].Value
       IN  (IF name \notin hiddenAttrs
            THEN <<Diag("Extraneous YAML property", nodeRange(D, Head(attrs).keyNode),
                        name, nameSuggestion(name, nameSuggestions))>>
            ELSE <<>>)
           \o extraneousDiagsNoComment(D, Tail(attrs), hiddenAttrs, nameSuggestions)

\* The loop of Content over the collected entries.
RECURSIVE extraneousDiags(_, _, _, _)
extraneousDiags(D, attrs, hiddenAttrs, nameSuggestions) ==
  IF attrs = <<>> THEN <<>>
  ELSE LET name == D.nodes[Head(attrs).keyNode].Value
       IN  (IF name # StrComment /\ name \notin hiddenAttrs
            THEN <<Diag("Extraneous YAML property", nodeRange(D, Head(attrs).keyNode),
                        name, nameSuggestion(name, nameSuggestions))>>
            ELSE <<>>)
           \o extraneousDiags(D, Tail(attrs), hiddenAttrs, nameSuggestions)

Content(D, maps, b, schema) ==
  With(PartialContent(D, maps, b, schema), LAMBDA pc :
    LET hiddenAttrs == Hidden(pc.maps, pc.unusedBody)
        nameSuggestions ==
          attrSuggestions(schema.Attributes, hiddenAttrs)
          \o [k \in 1..Len(schema.Blocks) |-> schema.Blocks[k].Type]
    IN  [content |-> pc.content,
         diags |-> pc.diags \o extraneousDiags(D, collectAttrs(D, b), hiddenAttrs,
                                               nameSuggestions),
         maps |-> pc.maps])

\* The loop of JustAttributes over the collected entries.
RECURSIVE justAttrsLoop(_, _, _, _)
justAttrsLoop(D, attrs, hiddenAttrs, st) ==
  IF attrs = <<>> THEN st
  ELSE LET attr == Head(attrs)
           name == D.nodes[attr.keyNode].Value
       IN  IF name = StrComment \/ name \in hiddenAttrs
           THEN justAttrsLoop(D, Tail(attrs), hiddenAttrs, st)
           ELSE IF name \in DOMAIN st.attrs
           THEN justAttrsLoop(D, Tail(attrs), hiddenAttrs,
                  [st EXCEPT !.diags =
                     Append(@, Diag("Duplicate attribute definition",
                                    nodeRange(D, attr.keyNode), name, <<>>))])
           ELSE justAttrsLoop(D, Tail(attrs), hiddenAttrs,
                  [st EXCEPT !.attrs = WithAttr(@, name,
                     [Name      |-> name,
                      Expr      |-> attr.valNode,
                      Range     |-> rangeBetween(D, attr.keyNode, attr.valNode),
                      NameRange |-> nodeRange(D, attr.keyNode)])])

\* JustAttributes without the diagnostic for a node that is not a mapping.
JustAttributesLenient(D, maps, b) ==
  IF b.node = Nil \/ D.nodes[b.node].Kind # "Mapping"
  THEN [attrs |-> <<>>, diags |-> <<>>]
  ELSE justAttrsLoop(D, collectAttrs(D, b), Hidden(maps, b),
                     [attrs |-> <<>>, diags |-> <<>>])

JustAttributes(D, maps, b) ==
  IF b.node = Nil \/ D.nodes[b.node].Kind # "Mapping"
  THEN [attrs |-> <<>>,
        diags |-> IF b.node # Nil
                  THEN <<Diag("Incorrect YAML value type", nodeStartRange(D, b.node),
                              <<>>, <<>>)>>
                  ELSE <<>>]
  ELSE justAttrsLoop(D, collectAttrs(D, b), Hidden(maps, b),
                     [attrs |-> <<>>, diags |-> <<>>])

\* ------------------------------------------------------------------------
\* cty values and evaluation contexts (hcl.EvalContext)
\* ------------------------------------------------------------------------

\* cty.NullVal(cty.DynamicPseudoType)
CtyNull == [ty |-> "null"]

\* cty.DynamicVal: an unknown value of unknown type.
CtyDynamic == [ty |-> "dynamic"]

\* cty.UnknownVal(cty.String)
CtyUnknownString == [ty |-> "unknown string"]

CtyBool(b) == [ty |-> "bool", v |-> b]

CtyNumber(n) == [ty |-> "number", v |-> n]

CtyString(s) == [ty |-> "string", v |-> s]

CtyTuple(vals) == [ty |-> "tuple", v |-> vals]

CtyObject(attrs) == [ty |-> "object", v |-> attrs]

StrTrue == <<"t", "r", "u", "e">>

StrFalse == <<"f", "a", "l", "s", "e">>

Digits == <<"0", "1", "2", "3", "4", "5", "6", "7", "8", "9">>

DigitValue(c) == (CHOOSE i \in 1..Len(Digits) : Digits[i] = c) - 1

RECURSIVE DecimalValue(_)
DecimalValue(s) ==
  IF s = <<>> THEN 0
  ELSE 10 * DecimalValue(SubSeq(s, 1, Len(s) - 1)) + DigitValue(s[Len(s)])

RECURSIVE DecimalText(_)
DecimalText(n) ==
  IF n < 10 THEN <<Digits[n + 1]>>
  ELSE DecimalText(n \div 10) \o <<Digits[(n % 10) + 1]>>

\* big.ParseFloat(value, 10, 512, big.ToNearestEven) on the texts that occur
\* here: a non-empty run of decimal digits is a number; any other character
\* (the x of 0x1F, a letter, "$") leaves input unread, which is an error.
ParseFloat(value) ==
  IF value # <<>> /\ \A i \in 1..Len(value) : value[i] \in Range(Digits)
  THEN [ok |-> TRUE, f |-> DecimalValue(value)]
  ELSE [ok |-> FALSE, f |-> 0]

\* convert.Convert(val, cty.String)
ConvertToString(val) ==
  CASE val.ty = "string" -> [ok |-> TRUE, val |-> val]
    [] val.ty = "bool"   -> [ok |-> TRUE, val |-> CtyString(IF val.v THEN StrTrue ELSE StrFalse)]
    [] val.ty = "number" -> [ok |-> TRUE, val |-> CtyString(DecimalText(val.v))]
    [] val.ty = "null"   -> [ok |-> TRUE, val |-> CtyNull]
    [] val.ty \in {"dynamic", "unknown string"} -> [ok |-> TRUE, val |-> CtyUnknownString]
    [] OTHER -> [ok |-> FALSE, val |-> val]

\* convert.Convert(val, cty.Bool)
ConvertToBool(val) ==
  CASE val.ty = "bool" -> [ok |-> TRUE, val |-> val]
    [] val.ty = "string" /\ val.v = StrTrue  -> [ok |-> TRUE, val |-> CtyBool(TRUE)]
    [] val.ty = "string" /\ val.v = StrFalse -> [ok |-> TRUE, val |-> CtyBool(FALSE)]
    [] OTHER -> [ok |-> FALSE, val |-> val]

LowerLetters ==
  <<"a", "b", "c", "d", "e", "f", "g", "h", "i", "j", "k", "l", "m",
    "n", "o", "p", "q", "r", "s", "t", "u", "v", "w", "x", "y", "z">>

UpperLetters ==
  <<"A", "B", "C", "D", "E", "F", "G", "H", "I", "J", "K", "L", "M",
    "N", "O", "P", "Q", "R", "S", "T", "U", "V", "W", "X", "Y", "Z">>

\* The function `upper` of the language.
Upper(s) ==
  <<>> \o [i \in 1..Len(s) |->
     IF s[i] \in Range(LowerLetters)
     THEN UpperLetters[CHOOSE k \in 1..Len(LowerLetters) : LowerLetters[k] = s[i]]
     ELSE s[i]]

\* An hcl.EvalContext without a parent; nilMaps: Variables and Functions are
\* nil maps.
EvalContext(variables, functions, nilMaps) ==
  [Variables |-> variables, Functions |-> functions, nilMaps |-> nilMaps]

OneVar(name, val) == [n \in {name} |-> val]

\* Contexts the decoder evaluates with.  In CtxEmpty both maps are nil; in
\* the others a and b are strings, f is upper, and v is an object with the
\* attribute x, a bool, or a string.
CtxEmpty == EvalContext(<<>>, <<>>, TRUE)

CtxWith(v) ==
  EvalContext([n \in {<<"v">>, <<"a">>, <<"b">>} |->
                 CASE n = <<"v">> -> v
                   [] n = <<"a">> -> CtyString(<<"1">>)
                   [] OTHER -> CtyString(<<"2">>)],
              OneVar(<<"f">>, "upper"), FALSE)

CtxObject == CtxWith(CtyObject(OneVar(<<"x">>, CtyString(<<"q">>))))

CtxBool == CtxWith(CtyBool(TRUE))

CtxString == CtxWith(CtyString(<<"q">>))

\* Index 0 (Nil) is the nil context.
Ctxs == <<CtxEmpty, CtxObject, CtxBool, CtxString>>

\* ------------------------------------------------------------------------
\* hclsyntax: the template parser, on the template language of Docs
\* (literal text and ${...} sequences holding a traversal a.b, a call f(x, y)
\* or a conditional c ? x : y, written without spaces), and the evaluation
\* of the expressions it builds.
\* ------------------------------------------------------------------------

\* The range of characters i..j of a one-line template that starts at `start`.
RangeIn(start, i, j) ==
  [Start |-> Pos(start.Line, start.Column + i - 1, start.Byte + i - 1),
   End   |-> Pos(start.Line, start.Column + j, start.Byte + j)]

LiteralValueExpr(val, srcRange) ==
  [kind |-> "LiteralValueExpr", Val |-> val, SrcRange |-> srcRange]

ScopeTraversalExpr(traversal, srcRange) ==
  [kind |-> "ScopeTraversalExpr", Traversal |-> traversal, SrcRange |-> srcRange]

FunctionCallExpr(name, args, srcRange) ==
  [kind |-> "FunctionCallExpr", Name |-> name, Args |-> args, SrcRange |-> srcRange]

ConditionalExpr(condition, trueResult, falseResult, srcRange) ==
  [kind |-> "ConditionalExpr", Condition |-> condition, TrueResult |-> trueResult,
   FalseResult |-> falseResult, SrcRange |-> srcRange]

TemplateExpr(parts, srcRange) ==
  [kind |-> "TemplateExpr", Parts |-> parts, SrcRange |-> srcRange]

TemplateWrapExpr(wrapped, srcRange) ==
  [kind |-> "TemplateWrapExpr", Wrapped |-> wrapped, SrcRange |-> srcRange]

\* The character at position i, "" past the end.
At(t, i) == IF i \in 1..Len(t) THEN t[i] ELSE ""

\* The last position of the identifier that starts at i (i - 1: none).
IdentEnd(t, i) ==
  LET stops == {j \in i..Len(t) : t[j] \notin Range(LowerLetters)}
  IN  IF stops = {} THEN Len(t) ELSE MinOf(stops) - 1

ParseFail == [ok |-> FALSE, next |-> 0]

\* The names of a traversal root.attr.attr..., from the root at i..e on.
RECURSIVE traversalNames(_, _, _)
traversalNames(t, i, e) ==
  IF At(t, e + 1) = "." /\ IdentEnd(t, e + 2) >= e + 2
  THEN LET rest == traversalNames(t, e + 2, IdentEnd(t, e + 2))
       IN  [names |-> <<SubSeq(t, i, e)>> \o rest.names, next |-> rest.next]
  ELSE [names |-> <<SubSeq(t, i, e)>>, next |-> e + 1]

RECURSIVE parseExpressionAt(_, _, _)
RECURSIVE parseArgs(_, _, _, _)

\* A call or a traversal starting at position i.
parseTerm(t, i, start) ==
  LET e == IdentEnd(t, i) IN
  IF e < i THEN ParseFail
  ELSE IF At(t, e + 1) = "("
  THEN LET a == IF At(t, e + 2) = ")"
                THEN [ok |-> TRUE, args |-> <<>>, next |-> e + 3]
                ELSE parseArgs(t, e + 2, start, <<>>)
       IN  IF ~a.ok THEN ParseFail
           ELSE [ok |-> TRUE, next |-> a.next,
                 expr |-> FunctionCallExpr(SubSeq(t, i, e), a.args,
                                           RangeIn(start, i, a.next - 1))]
  ELSE LET tr == traversalNames(t, i, e)
       IN  [ok |-> TRUE, next |-> tr.next,
            expr |-> ScopeTraversalExpr(tr.names, RangeIn(start, i, tr.next - 1))]

\* The arguments of a call from position i to the closing parenthesis.
parseArgs(t, i, start, args) ==
  LET a == parseExpressionAt(t, i, start) IN
  IF ~a.ok THEN ParseFail
  ELSE IF At(t, a.next) = "," THEN parseArgs(t, a.next + 1, start, Append(args, a.expr))
  ELSE IF At(t, a.next) = ")"
  THEN [ok |-> TRUE, args |-> Append(args, a.expr), next |-> a.next + 1]
  ELSE ParseFail

\* An expression starting at position i: a term, or a conditional on it.
parseExpressionAt(t, i, start) ==
  With(parseTerm(t, i, start), LAMBDA c :
    IF ~c.ok \/ At(t, c.next) # "?" THEN c
    ELSE With(parseExpressionAt(t, c.next + 1, start), LAMBDA a :
      IF ~a.ok \/ At(t, a.next) # ":" THEN ParseFail
      ELSE With(parseExpressionAt(t, a.next + 1, start), LAMBDA b :
        IF ~b.ok THEN ParseFail
        ELSE [ok |-> TRUE, next |-> b.next,
              expr |-> ConditionalExpr(c.expr, a.expr, b.expr,
                                       RangeIn(start, i, b.next - 1))])))

\* The parts of the template from position i on; literal is whether a
\* literal part was seen.
RECURSIVE templateParts(_, _, _)
templateParts(t, i, start) ==
  LET opens == {j \in i..(Len(t) - 1) : t[j] = "$" /\ t[j + 1] = "{"}
      open  == IF opens = {} THEN 0 ELSE MinOf(opens)
      closes == {j \in (open + 2)..Len(t) : t[j] = "}"}
      text(j) == <<LiteralValueExpr(CtyString(SubSeq(t, i, j)), RangeIn(start, i, j))>>
  IN  IF i > Len(t) THEN [parts |-> <<>>, literal |-> FALSE, diags |-> <<>>]
      ELSE IF open = 0
      THEN [parts |-> text(Len(t)), literal |-> TRUE, diags |-> <<>>]
      ELSE IF closes = {}
      THEN [parts |-> <<>>, literal |-> FALSE,
            diags |-> <<Diag("Unclosed template interpolation sequence",
                             RangeIn(start, open, open + 1), <<>>, <<>>)>>]
      ELSE With(MinOf(closes), LAMBDA close :
             With(parseExpressionAt(t, open + 2, start), LAMBDA inner :
               IF ~inner.ok
               THEN [parts |-> <<>>, literal |-> FALSE,
                     diags |-> <<Diag("Invalid expression",
                                      RangeIn(start, open + 2, close), <<>>, <<>>)>>]
               ELSE IF inner.next # close
               THEN [parts |-> <<>>, literal |-> FALSE,
                     diags |-> <<Diag("Extra characters after interpolation expression",
                                      RangeIn(start, inner.next, close), <<>>, <<>>)>>]
               ELSE With(templateParts(t, close + 1, start), LAMBDA rest :
                      [parts |-> (IF open > i THEN text(open - 1) ELSE <<>>)
                                   \o <<inner.expr>> \o rest.parts,
                       literal |-> open > i \/ rest.literal,
                       diags |-> rest.diags])))

\* hclsyntax.ParseTemplate(src, filename, start): a lone ${...} sequence is
\* passed through as a TemplateWrapExpr; an empty template is one empty
\* literal.
ParseTemplate(src, start) ==
  LET rng == RangeIn(start, 1, Len(src))
  IN  With(templateParts(src, 1, start), LAMBDA p :
        IF p.diags # <<>>
        THEN [expr |-> TemplateExpr(<<>>, rng), diags |-> p.diags]
        ELSE IF Len(p.parts) = 1 /\ ~p.literal
        THEN [expr |-> TemplateWrapExpr(p.parts[1], rng), diags |-> <<>>]
        ELSE IF p.parts = <<>>
        THEN [expr |-> TemplateExpr(<<LiteralValueExpr(CtyString(<<>>), rng)>>, rng),
              diags |-> <<>>]
        ELSE [expr |-> TemplateExpr(p.parts, rng), diags |-> <<>>])

Result(val, diags) == [val |-> val, diags |-> diags]

\* Traversal.TraverseRel: the attribute steps of a traversal.
RECURSIVE traverseRel(_, _, _)
traverseRel(val, names, rng) ==
  IF names = <<>> THEN Result(val, <<>>)
  ELSE CASE val.ty = "null" ->
              Result(CtyDynamic, <<Diag("Attempt to get attribute from null value",
                                        rng, Head(names), <<>>)>>)
         [] val.ty = "object" /\ Head(names) \in DOMAIN val.v ->
              traverseRel(val.v[Head(names)], Tail(names), rng)
         [] val.ty = "dynamic" -> Result(CtyDynamic, <<>>)
         [] OTHER ->
              Result(CtyDynamic, <<Diag("Unsupported attribute", rng, Head(names), <<>>)>>)

\* Traversal.TraverseAbs
TraverseAbs(traversal, ctx, rng) ==
  IF ctx.nilMaps
  THEN Result(CtyDynamic, <<Diag("Variables not allowed", rng, Head(traversal), <<>>)>>)
  ELSE IF Head(traversal) \in DOMAIN ctx.Variables
  THEN traverseRel(ctx.Variables[Head(traversal)], Tail(traversal), rng)
  ELSE Result(CtyDynamic, <<Diag("Unknown variable", rng, Head(traversal), <<>>)>>)

\* The call of upper, the one function the contexts define, on evaluated
\* arguments.
callUpper(e, args) ==
  IF Len(args) < 1
  THEN Result(CtyDynamic, <<Diag("Not enough function arguments", e.SrcRange, e.Name, <<>>)>>)
  ELSE IF Len(args) > 1
  THEN Result(CtyDynamic, <<Diag("Too many function arguments", e.SrcRange, e.Name, <<>>)>>)
  ELSE LET conv == ConvertToString(args[1].val) IN
       IF ~conv.ok \/ conv.val.ty = "null"
       THEN Result(CtyDynamic,
                   args[1].diags
                   \o <<Diag("Invalid function argument", e.SrcRange, e.Name, <<>>)>>)
       ELSE IF args[1].diags # <<>> THEN Result(CtyDynamic, args[1].diags)
       ELSE IF conv.val.ty = "unknown string" THEN Result(CtyUnknownString, <<>>)
       ELSE Result(CtyString(Upper(conv.val.v)), <<>>)

\* Expression.Value(ctx) of a parsed template expression, ctx not nil.
RECURSIVE exprValue(_, _)
exprValue(e, ctx) ==
  CASE e.kind = "LiteralValueExpr" -> Result(e.Val, <<>>)
    [] e.kind = "ScopeTraversalExpr" -> TraverseAbs(e.Traversal, ctx, e.SrcRange)
    [] e.kind = "FunctionCallExpr" ->
         IF ctx.nilMaps
         THEN Result(CtyDynamic,
                     <<Diag("Function calls not allowed", e.SrcRange, e.Name, <<>>)>>)
         ELSE IF e.Name \notin DOMAIN ctx.Functions
         THEN Result(CtyDynamic,
                     <<Diag("Call to unknown function", e.SrcRange, e.Name, <<>>)>>)
         ELSE callUpper(e, [i \in 1..Len(e.Args) |-> exprValue(e.Args[i], ctx)])
    [] e.kind = "ConditionalExpr" ->
         LET t == exprValue(e.TrueResult, ctx)
             f == exprValue(e.FalseResult, ctx)
             c == exprValue(e.Condition, ctx)
             unknown == IF t.val.ty = "string" /\ f.val.ty = "string"
                        THEN CtyUnknownString ELSE CtyDynamic
             b == ConvertToBool(c.val)
         IN  IF c.val.ty = "null"
             THEN Result(unknown, c.diags \o <<Diag("Null condition", e.Condition.SrcRange,
                                                    <<>>, <<>>)>>)
             ELSE IF c.val.ty \in {"dynamic", "unknown string"}
             THEN Result(unknown, c.diags \o t.diags \o f.diags)
             ELSE IF ~b.ok
             THEN Result(unknown, c.diags \o <<Diag("Incorrect condition type",
                                                    e.Condition.SrcRange, <<>>, <<>>)>>)
             ELSE IF b.val.v THEN Result(t.val, c.diags \o t.diags)
             ELSE Result(f.val, c.diags \o f.diags)
    [] e.kind = "TemplateExpr" ->
         LET part(i) == exprValue(e.Parts[i], ctx)
             conv(i) == ConvertToString(part(i).val)
             bad(i)  == part(i).val.ty = "null" \/ ~conv(i).ok
             n       == Len(e.Parts)
             diags   == Concat([i \in 1..n |->
                          part(i).diags
                          \o (IF bad(i)
                              THEN <<Diag("Invalid template interpolation value",
                                          e.Parts[i].SrcRange, <<>>, <<>>)>>
                              ELSE <<>>)])
             known   == \A i \in 1..n : bad(i) \/ conv(i).val.ty = "string"
             text    == Concat([i \in 1..n |->
                          IF ~bad(i) /\ conv(i).val.ty = "string"
                          THEN conv(i).val.v ELSE <<>>])
         IN  Result(IF known THEN CtyString(text) ELSE CtyUnknownString, diags)
    [] e.kind = "TemplateWrapExpr" -> exprValue(e.Wrapped, ctx)
    [] OTHER -> Result(CtyDynamic, <<>>)

\* Expression.Variables() of a parsed template expression: the traversals
\* of its scope traversal nodes, in source order.
RECURSIVE exprVariables(_)
exprVariables(e) ==
  CASE e.kind = "ScopeTraversalExpr" -> <<e.Traversal>>
    [] e.kind = "FunctionCallExpr" ->
         Concat([i \in 1..Len(e.Args) |-> exprVariables(e.Args[i])])
    [] e.kind = "ConditionalExpr" ->
         exprVariables(e.Condition) \o exprVariables(e.TrueResult)
         \o exprVariables(e.FalseResult)
    [] e.kind = "TemplateExpr" ->
         Concat([i \in 1..Len(e.Parts) |-> exprVariables(e.Parts[i])])
    [] e.kind = "TemplateWrapExpr" -> exprVariables(e.Wrapped)
    [] OTHER -> <<>>

\* ------------------------------------------------------------------------
\* The template restriction walker (restrictions.go)
\* ------------------------------------------------------------------------

\* A nil hcl.Expression.
NilExpr == [kind |-> "nil"]

\* Summary and Subject; the feature named in the Detail is kept as Name.
yamlRestrictionError(summary, feature, subject) ==
  Diag(summary, subject, feature, <<>>)

\* The diagnostics walkExpression appends to *diags.
RECURSIVE walkExpression(_)
walkExpression(expr) ==
  LET each(exprs) == Concat([i \in 1..Len(exprs) |-> walkExpression(exprs[i])]) IN
  CASE expr.kind = "nil" -> <<>>
    [] expr.kind = "FunctionCallExpr" ->
         <<yamlRestrictionError("Functions not supported in YAML", expr.Name,
                                expr.SrcRange)>>
         \o each(expr.Args)
    [] expr.kind = "ForExpr" ->
         <<yamlRestrictionError("for expressions not supported in YAML", <<>>,
                                expr.SrcRange)>>
         \o walkExpression(expr.CollExpr) \o walkExpression(expr.KeyExpr)
         \o walkExpression(expr.ValExpr) \o walkExpression(expr.CondExpr)
    [] expr.kind = "ConditionalExpr" ->
         <<yamlRestrictionError("Conditionals not supported in YAML", <<>>,
                                expr.SrcRange)>>
         \o walkExpression(expr.Condition) \o walkExpression(expr.TrueResult)
         \o walkExpression(expr.FalseResult)
    [] expr.kind = "TemplateExpr" -> each(expr.Parts)
    [] expr.kind = "TemplateWrapExpr" -> walkExpression(expr.Wrapped)
    [] expr.kind = "ScopeTraversalExpr" -> <<>>
    [] expr.kind = "RelativeTraversalExpr" -> walkExpression(expr.Source)
    [] expr.kind = "IndexExpr" ->
         walkExpression(expr.Collection) \o walkExpression(expr.Key)
    [] expr.kind = "BinaryOpExpr" -> walkExpression(expr.LHS) \o walkExpression(expr.RHS)
    [] expr.kind = "UnaryOpExpr" -> walkExpression(expr.Val)
    [] expr.kind = "TupleConsExpr" -> each(expr.Exprs)
    [] expr.kind = "ObjectConsExpr" ->
         Concat([i \in 1..Len(expr.Items) |->
                   walkExpression(expr.Items[i].KeyExpr)
                   \o walkExpression(expr.Items[i].ValueExpr)])
    [] expr.kind = "SplatExpr" -> walkExpression(expr.Source) \o walkExpression(expr.Each)
    [] expr.kind = "AnonSymbolExpr" -> <<>>
    [] expr.kind = "LiteralValueExpr" -> <<>>
    [] expr.kind = "ParenthesesExpr" -> walkExpression(expr.Expression)
    [] OTHER -> <<>>

\* A walk that stops at the first restricted construct it meets.
ValidateFirstOnly(expr) ==
  LET w == walkExpression(expr) IN IF w = <<>> THEN w ELSE <<w[1]>>

ValidateTemplateExpression(expr) == walkExpression(expr)

\* ------------------------------------------------------------------------
\* The expression adapter (an expression is the node it wraps; ctx is an
\* index into Ctxs, Nil the nil context)
\* ------------------------------------------------------------------------

BoolTrueTexts ==
  {<<"t","r","u","e">>, <<"T","r","u","e">>, <<"T","R","U","E">>,
   <<"y","e","s">>, <<"Y","e","s">>, <<"Y","E","S">>,
   <<"o","n">>, <<"O","n">>, <<"O","N">>}

BoolFalseTexts ==
  {<<"f","a","l","s","e">>, <<"F","a","l","s","e">>, <<"F","A","L","S","E">>,
   <<"n","o">>, <<"N","o">>, <<"N","O">>,
   <<"o","f","f">>, <<"O","f","f">>, <<"O","F","F">>}

evalStringTemplate(D, src, value, ctx) ==
  LET srcRange == nodeRange(D, src)
  IN  With(ParseTemplate(value, srcRange.Start), LAMBDA parsed :
        IF parsed.diags # <<>> THEN Result(CtyDynamic, parsed.diags)
        ELSE With(exprValue(parsed.expr, Ctxs[ctx]), LAMBDA r :
               Result(r.val, parsed.diags \o r.diags)))

\* evalScalar parsing the text as a template without a context too.
evalScalarAlwaysTemplate(D, src, ctx) ==
  LET value == D.nodes[src].Value
      tag   == D.nodes[src].Tag
  IN  IF tag = "!!null" \/ value = StrNull \/ value = StrTilde
      THEN Result(CtyNull, <<>>)
      ELSE IF tag = "!!bool" /\ value \in BoolTrueTexts THEN Result(CtyBool(TRUE), <<>>)
      ELSE IF tag = "!!bool" /\ value \in BoolFalseTexts THEN Result(CtyBool(FALSE), <<>>)
      ELSE IF tag \in {"!!int", "!!float"} /\ ParseFloat(value).ok
      THEN Result(CtyNumber(ParseFloat(value).f), <<>>)
      ELSE IF tag # "!!binary"
      THEN evalStringTemplate(D, src, value, IF ctx = Nil THEN 1 ELSE ctx)
      ELSE Result(CtyString(value), <<>>)

\* evalScalar without the test for the binary tag.
evalScalarInterpolatesBinary(D, src, ctx) ==
  LET value == D.nodes[src].Value
      tag   == D.nodes[src].Tag
  IN  IF tag = "!!null" \/ value = StrNull \/ value = StrTilde
      THEN Result(CtyNull, <<>>)
      ELSE IF tag = "!!bool" /\ value \in BoolTrueTexts THEN Result(CtyBool(TRUE), <<>>)
      ELSE IF tag = "!!bool" /\ value \in BoolFalseTexts THEN Result(CtyBool(FALSE), <<>>)
      ELSE IF tag \in {"!!int", "!!float"} /\ ParseFloat(value).ok
      THEN Result(CtyNumber(ParseFloat(value).f), <<>>)
      ELSE IF ctx # Nil THEN evalStringTemplate(D, src, value, ctx)
      ELSE Result(CtyString(value), <<>>)

evalScalar(D, src, ctx) ==
  LET value == D.nodes[src].Value
      tag   == D.nodes[src].Tag
  IN  IF /\ (tag = "!!null" \/ value = StrNull \/ value = StrTilde
             \/ (value = <<>> /\ tag = ""))
         /\ (tag = "!!null" \/ value = StrNull \/ value = StrTilde)
      THEN Result(CtyNull, <<>>)
      ELSE IF tag = "!!bool" /\ value \in BoolTrueTexts THEN Result(CtyBool(TRUE), <<>>)
      ELSE IF tag = "!!bool" /\ value \in BoolFalseTexts THEN Result(CtyBool(FALSE), <<>>)
      ELSE IF tag \in {"!!int", "!!float"} /\ ParseFloat(value).ok
      THEN Result(CtyNumber(ParseFloat(value).f), <<>>)
      ELSE IF ctx # Nil /\ tag # "!!binary" THEN evalStringTemplate(D, src, value, ctx)
      ELSE Result(CtyString(value), <<>>)

RECURSIVE Value(_, _, _)

evalSequence(D, src, ctx) ==
  LET content == D.nodes[src].Content
      item(i) == Value(D, content[i], ctx)
  IN  Result(CtyTuple(<<>> \o [i \in 1..Len(content) |-> item(i).val]),
             Concat([i \in 1..Len(content) |-> item(i).diags]))

\* The loop of evalMapping at 0-based index i; st: attrs, attrRanges, known,
\* diags.
RECURSIVE evalMappingLoop(_, _, _, _, _)
evalMappingLoop(D, src, ctx, i, st) ==
  LET content == D.nodes[src].Content IN
  IF i + 1 >= Len(content) THEN st
  ELSE LET keyNode  == content[i + 1]
           valNode  == content[i + 2]
           name     == Value(D, keyNode, ctx)
           val      == Value(D, valNode, ctx)
           diags    == st.diags \o name.diags \o val.diags
           conv     == ConvertToString(name.val)
           keyRange == nodeRange(D, keyNode)
           invalid  == Diag("Invalid object key expression", keyRange, <<>>, <<>>)
       IN  IF ~conv.ok \/ conv.val.ty = "null"
           THEN evalMappingLoop(D, src, ctx, i + 2,
                                [st EXCEPT !.diags = Append(diags, invalid)])
           ELSE IF conv.val.ty # "string"
           THEN evalMappingLoop(D, src, ctx, i + 2,
                                [st EXCEPT !.diags = diags, !.known = FALSE])
           ELSE IF conv.val.v \in DOMAIN st.attrs
           THEN evalMappingLoop(D, src, ctx, i + 2,
                  [st EXCEPT !.diags =
                     Append(diags, Diag("Duplicate object attribute", keyRange,
                                        conv.val.v, <<>>))])
           ELSE evalMappingLoop(D, src, ctx, i + 2,
                  [st EXCEPT !.diags = diags,
                             !.attrs = WithAttr(@, conv.val.v, val.val),
                             !.attrRanges = WithAttr(@, conv.val.v, keyRange)])

evalMapping(D, src, ctx) ==
  LET st == evalMappingLoop(D, src, ctx, 0,
              [attrs |-> <<>>, attrRanges |-> <<>>, known |-> TRUE, diags |-> <<>>])
  IN  IF ~st.known THEN Result(CtyDynamic, st.diags)
      ELSE Result(CtyObject(st.attrs), st.diags)

Value(D, src, ctx) ==
  IF src = Nil THEN Result(CtyNull, <<>>)
  ELSE CASE D.nodes[src].Kind = "Scalar"   -> evalScalar(D, src, ctx)
         [] D.nodes[src].Kind = "Sequence" -> evalSequence(D, src, ctx)
         [] D.nodes[src].Kind = "Mapping"  -> evalMapping(D, src, ctx)
         [] D.nodes[src].Kind = "Alias" ->
              IF D.nodes[src].Alias # Nil THEN Value(D, D.nodes[src].Alias, ctx)
              ELSE Result(CtyDynamic, <<>>)
         [] OTHER -> Result(CtyDynamic, <<>>)

RECURSIVE Variables(_, _)
Variables(D, src) ==
  IF src = Nil THEN <<>>
  ELSE CASE D.nodes[src].Kind = "Scalar" ->
              IF D.nodes[src].Tag # "!!binary"
              THEN With(ParseTemplate(D.nodes[src].Value, nodeRange(D, src).Start),
                        LAMBDA parsed :
                          IF parsed.diags = <<>> THEN exprVariables(parsed.expr) ELSE <<>>)
              ELSE <<>>
         [] D.nodes[src].Kind = "Sequence" ->
              Concat([i \in 1..Len(D.nodes[src].Content) |->
                        Variables(D, D.nodes[src].Content[i])])
         [] D.nodes[src].Kind = "Mapping" ->
              Concat([i \in 1..(2 * (Len(D.nodes[src].Content) \div 2)) |->
                        Variables(D, D.nodes[src].Content[i])])
         [] D.nodes[src].Kind = "Alias" ->
              IF D.nodes[src].Alias # Nil THEN Variables(D, D.nodes[src].Alias) ELSE <<>>
         [] OTHER -> <<>>

\* ------------------------------------------------------------------------
\* The gatekeepers of package configs (yaml_restrictions.go); a *hcl.Diagnostic
\* result is a list of at most one diagnostic, empty for nil.
\* ------------------------------------------------------------------------

\* A body the native parser produced.
HCLBody == [dyn |-> "*hclsyntax.Body", node |-> Nil, hiddenAttrs |-> Nil]

\* Name holds the feature formatted into the Detail.
configsYamlRestrictionError(summary, feature, subject) ==
  Diag(summary, subject, feature, <<>>)

\* ValidateYAMLBlockType reporting at the block-type key.
ValidateYAMLBlockTypeAtKey(block, body) ==
  IF ~IsYAMLBody(body) THEN <<>>
  ELSE CASE block.Type = StrVariable ->
              <<configsYamlRestrictionError("Variables not supported in YAML",
                                            StrVariable, block.TypeRange)>>
         [] block.Type = StrLocals ->
              <<configsYamlRestrictionError("Locals not supported in YAML",
                                            StrLocals, block.TypeRange)>>
         [] OTHER -> <<>>

ValidateYAMLBlockType(block, body) ==
  IF ~IsYAMLBody(body) THEN <<>>
  ELSE CASE block.Type = StrVariable ->
              <<configsYamlRestrictionError("Variables not supported in YAML",
                                            StrVariable, block.DefRange)>>
         [] block.Type = StrLocals ->
              <<configsYamlRestrictionError("Locals not supported in YAML",
                                            StrLocals, block.DefRange)>>
         [] OTHER -> <<>>

ValidateYAMLNoCountOrForEach(body, countExpr, forEachExpr, countRange, forEachRange) ==
  IF ~IsYAMLBody(body) THEN <<>>
  ELSE (IF countExpr # Nil
        THEN <<configsYamlRestrictionError("count not supported in YAML",
                                           StrCount, countRange)>>
        ELSE <<>>)
       \o
       (IF forEachExpr # Nil
        THEN <<configsYamlRestrictionError("for_each not supported in YAML",
                                           StrForEach, forEachRange)>>
        ELSE <<>>)

ValidateYAMLNoDynamicBlock(block, parentBody) ==
  IF ~IsYAMLBody(parentBody) THEN <<>>
  ELSE IF block.Type = StrDynamic
       THEN <<configsYamlRestrictionError("dynamic blocks not supported in YAML",
                                          StrDynamic, block.DefRange)>>
       ELSE <<>>

\* ------------------------------------------------------------------------
\* The front door (parser_yaml.go): streams of documents. A stream is its
\* bytes, the table of the nodes yaml.v3's decoder allocates for it, and what
\* each Decode call yields: a document node, or 0 for a syntax error (a
\* decoder that has failed fails again at every later call). As
\* the decoder does, a document without content (a separator followed by
\* another separator or by the end of the stream) is a document node holding
\* one empty plain scalar, tagged !!null, at the mark of the next token.
\* ------------------------------------------------------------------------

\* The streams the front door is run on.
StreamTables ==
  <<
  \* no bytes at all
  [src |-> <<>>,
   docs |-> <<>>,
   nodes |-> <<

   >>],
  \* a document separator and nothing else
  \*   | ---
  [src |-> <<"-", "-", "-", "\n">>,
   docs |-> <<1>>,
   nodes |-> <<
     N("Document", "", <<>>, "plain", 1, 1, <<2>>, 0),
     N("Scalar", "!!null", <<>>, "plain", 2, 1, <<>>, 0)
   >>],
  \* a document that is a null scalar
  \*   | ~
  [src |-> <<"~", "\n">>,
   docs |-> <<1>>,
   nodes |-> <<
     N("Document", "", <<>>, "plain", 1, 1, <<2>>, 0),
     N("Scalar", "!!null", <<"~">>, "plain", 1, 1, <<>>, 0)
   >>],
  \* three documents with content and one without, between the first and the second
  \*   | ---
  \*   | resource:
  \*   |   a:
  \*   |     w:
  \*   |       k: v
  \*   | ---
  \*   | ---
  \*   | locals:
  \*   |   f: b
  \*   | ---
  \*   | variable:
  \*   |   r:
  \*   |     d: u
  \*   | conut: x
  [src |-> <<"-", "-", "-", "\n", "r", "e", "s", "o", "u", "r", "c", "e", ":", "\n", " ", " ", "a", ":", "\n", " ", " ", " ", " ", "w", ":", "\n", " ", " ", " ", " ", " ", " ", "k", ":", " ", "v", "\n", "-", "-", "-", "\n", "-", "-", "-", "\n", "l", "o", "c", "a", "l", "s", ":", "\n", " ", " ", "f", ":", " ", "b", "\n", "-", "-", "-", "\n", "v", "a", "r", "i", "a", "b", "l", "e", ":", "\n", " ", " ", "r", ":", "\n", " ", " ", " ", " ", "d", ":", " ", "u", "\n", "c", "o", "n", "u", "t", ":", " ", "x", "\n">>,
   docs |-> <<1, 11, 13, 19>>,
   nodes |-> <<
     N("Document", "", <<>>, "plain", 1, 1, <<2>>, 0),
     N("Mapping", "!!map", <<>>, "plain", 2, 1, <<3, 4>>, 0),
     N("Scalar", "!!str", <<"r", "e", "s", "o", "u", "r", "c", "e">>, "plain", 2, 1, <<>>, 0),
     N("Mapping", "!!map", <<>>, "plain", 3, 3, <<5, 6>>, 0),
     N("Scalar", "!!str", <<"a">>, "plain", 3, 3, <<>>, 0),
     N("Mapping", "!!map", <<>>, "plain", 4, 5, <<7, 8>>, 0),
     N("Scalar", "!!str", <<"w">>, "plain", 4, 5, <<>>, 0),
     N("Mapping", "!!map", <<>>, "plain", 5, 7, <<9, 10>>, 0),
     N("Scalar", "!!str", <<"k">>, "plain", 5, 7, <<>>, 0),
     N("Scalar", "!!str", <<"v">>, "plain", 5, 10, <<>>, 0),
     N("Document", "", <<>>, "plain", 6, 1, <<12>>, 0),
     N("Scalar", "!!null", <<>>, "plain", 7, 1, <<>>, 0),
     N("Document", "", <<>>, "plain", 7, 1, <<14>>, 0),
     N("Mapping", "!!map", <<>>, "plain", 8, 1, <<15, 16>>, 0),
     N("Scalar", "!!str", <<"l", "o", "c", "a", "l", "s">>, "plain", 8, 1, <<>>, 0),
     N("Mapping", "!!map", <<>>, "plain", 9, 3, <<17, 18>>, 0),
     N("Scalar", "!!str", <<"f">>, "plain", 9, 3, <<>>, 0),
     N("Scalar", "!!str", <<"b">>, "plain", 9, 6, <<>>, 0),
     N("Document", "", <<>>, "plain", 10, 1, <<20>>, 0),
     N("Mapping", "!!map", <<>>, "plain", 11, 1, <<21, 22, 27, 28>>, 0),
     N("Scalar", "!!str", <<"v", "a", "r", "i", "a", "b", "l", "e">>, "plain", 11, 1, <<>>, 0),
     N("Mapping", "!!map", <<>>, "plain", 12, 3, <<23, 24>>, 0),
     N("Scalar", "!!str", <<"r">>, "plain", 12, 3, <<>>, 0),
     N("Mapping", "!!map", <<>>, "plain", 13, 5, <<25, 26>>, 0),
     N("Scalar", "!!str", <<"d">>, "plain", 13, 5, <<>>, 0),
     N("Scalar", "!!str", <<"u">>, "plain", 13, 8, <<>>, 0),
     N("Scalar", "!!str", <<"c", "o", "n", "u", "t">>, "plain", 14, 1, <<>>, 0),
     N("Scalar", "!!str", <<"x">>, "plain", 14, 8, <<>>, 0)
   >>],
  \* two documents, the second with a variable key over a sequence and a locals key without value
  \*   | ---
  \*   | resource:
  \*   |   a:
  \*   |     w:
  \*   |       k: v
  \*   | ---
  \*   | variable:
  \*   |   r:
  \*   |     - d: u
  \*   |     - e: v
  \*   | locals: ~
  [src |-> <<"-", "-", "-", "\n", "r", "e", "s", "o", "u", "r", "c", "e", ":", "\n", " ", " ", "a", ":", "\n", " ", " ", " ", " ", "w", ":", "\n", " ", " ", " ", " ", " ", " ", "k", ":", " ", "v", "\n", "-", "-", "-", "\n", "v", "a", "r", "i", "a", "b", "l", "e", ":", "\n", " ", " ", "r", ":", "\n", " ", " ", " ", " ", "-", " ", "d", ":", " ", "u", "\n", " ", " ", " ", " ", "-", " ", "e", ":", " ", "v", "\n", "l", "o", "c", "a", "l", "s", ":", " ", "~", "\n">>,
   docs |-> <<1, 11>>,
   nodes |-> <<
     N("Document", "", <<>>, "plain", 1, 1, <<2>>, 0),
     N("Mapping", "!!map", <<>>, "plain", 2, 1, <<3, 4>>, 0),
     N("Scalar", "!!str", <<"r", "e", "s", "o", "u", "r", "c", "e">>, "plain", 2, 1, <<>>, 0),
     N("Mapping", "!!map", <<>>, "plain", 3, 3, <<5, 6>>, 0),
     N("Scalar", "!!str", <<"a">>, "plain", 3, 3, <<>>, 0),
     N("Mapping", "!!map", <<>>, "plain", 4, 5, <<7, 8>>, 0),
     N("Scalar", "!!str", <<"w">>, "plain", 4, 5, <<>>, 0),
     N("Mapping", "!!map", <<>>, "plain", 5, 7, <<9, 10>>, 0),
     N("Scalar", "!!str", <<"k">>, "plain", 5, 7, <<>>, 0),
     N("Scalar", "!!str", <<"v">>, "plain", 5, 10, <<>>, 0),
     N("Document", "", <<>>, "plain", 6, 1, <<12>>, 0),
     N("Mapping", "!!map", <<>>, "plain", 7, 1, <<13, 14, 23, 24>>, 0),
     N("Scalar", "!!str", <<"v", "a", "r", "i", "a", "b", "l", "e">>, "plain", 7, 1, <<>>, 0),
     N("Mapping", "!!map", <<>>, "plain", 8, 3, <<15, 16>>, 0),
     N("Scalar", "!!str", <<"r">>, "plain", 8, 3, <<>>, 0),
     N("Sequence", "!!seq", <<>>, "plain", 9, 5, <<17, 20>>, 0),
     N("Mapping", "!!map", <<>>, "plain", 9, 7, <<18, 19>>, 0),
     N("Scalar", "!!str", <<"d">>, "plain", 9, 7, <<>>, 0),
     N("Scalar", "!!str", <<"u">>, "plain", 9, 10, <<>>, 0),
     N("Mapping", "!!map", <<>>, "plain", 10, 7, <<21, 22>>, 0),
     N("Scalar", "!!str", <<"e">>, "plain", 10, 7, <<>>, 0),
     N("Scalar", "!!str", <<"v">>, "plain", 10, 10, <<>>, 0),
     N("Scalar", "!!str", <<"l", "o", "c", "a", "l", "s">>, "plain", 11, 1, <<>>, 0),
     N("Scalar", "!!null", <<"~">>, "plain", 11, 9, <<>>, 0)
   >>],
  \* a document followed by a separator
  \*   | name: x
  \*   | ---
  [src |-> <<"n", "a", "m", "e", ":", " ", "x", "\n", "-", "-", "-", "\n">>,
   docs |-> <<1, 5>>,
   nodes |-> <<
     N("Document", "", <<>>, "plain", 1, 1, <<2>>, 0),
     N("Mapping", "!!map", <<>>, "plain", 1, 1, <<3, 4>>, 0),
     N("Scalar", "!!str", <<"n", "a", "m", "e">>, "plain", 1, 1, <<>>, 0),
     N("Scalar", "!!str", <<"x">>, "plain", 1, 7, <<>>, 0),
     N("Document", "", <<>>, "plain", 2, 1, <<6>>, 0),
     N("Scalar", "!!null", <<>>, "plain", 3, 1, <<>>, 0)
   >>],
  \* a document, one without content, one with an unclosed quoted scalar, and a last one
  \*   | name: x
  \*   | ---
  \*   | ---
  \*   | count: "3
  \*   | ---
  \*   | name: y
  [src |-> <<"n", "a", "m", "e", ":", " ", "x", "\n", "-", "-", "-", "\n", "-", "-", "-", "\n", "c", "o", "u", "n", "t", ":", " ", "\"", "3", "\n", "-", "-", "-", "\n", "n", "a", "m", "e", ":", " ", "y", "\n">>,
   docs |-> <<1, 5, 0, 0>>,
   nodes |-> <<
     N("Document", "", <<>>, "plain", 1, 1, <<2>>, 0),
     N("Mapping", "!!map", <<>>, "plain", 1, 1, <<3, 4>>, 0),
     N("Scalar", "!!str", <<"n", "a", "m", "e">>, "plain", 1, 1, <<>>, 0),
     N("Scalar", "!!str", <<"x">>, "plain", 1, 7, <<>>, 0),
     N("Document", "", <<>>, "plain", 2, 1, <<6>>, 0),
     N("Scalar", "!!null", <<>>, "plain", 3, 1, <<>>, 0)
   >>],
  \* an anchored scalar, an alias of it, an empty sequence and an empty mapping
  \*   | name: &a x
  \*   | count: *a
  \*   | l: []
  \*   | m: {}
  [src |-> <<"n", "a", "m", "e", ":", " ", "&", "a", " ", "x", "\n", "c", "o", "u", "n", "t", ":", " ", "*", "a", "\n", "l", ":", " ", "[", "]", "\n", "m", ":", " ", "{", "}", "\n">>,
   docs |-> <<1>>,
   nodes |-> <<
     N("Document", "", <<>>, "plain", 1, 1, <<2>>, 0),
     N("Mapping", "!!map", <<>>, "plain", 1, 1, <<3, 4, 5, 6, 7, 8, 9, 10>>, 0),
     N("Scalar", "!!str", <<"n", "a", "m", "e">>, "plain", 1, 1, <<>>, 0),
     N("Scalar", "!!str", <<"x">>, "plain", 1, 7, <<>>, 0),
     N("Scalar", "!!str", <<"c", "o", "u", "n", "t">>, "plain", 2, 1, <<>>, 0),
     N("Alias", "", <<"a">>, "plain", 2, 8, <<>>, 4),
     N("Scalar", "!!str", <<"l">>, "plain", 3, 1, <<>>, 0),
     N("Sequence", "!!seq", <<>>, "plain", 3, 4, <<>>, 0),
     N("Scalar", "!!str", <<"m">>, "plain", 4, 1, <<>>, 0),
     N("Mapping", "!!map", <<>>, "plain", 4, 4, <<>>, 0)
   >>],
  \* a quoted scalar whose escape stands for the three bytes of U+2028, at the end of the bytes
  \*   | name: "\L"
  [src |-> <<"n", "a", "m", "e", ":", " ", "\"", "\\", "L", "\"">>,
   docs |-> <<1>>,
   nodes |-> <<
     N("Document", "", <<>>, "plain", 1, 1, <<2>>, 0),
     N("Mapping", "!!map", <<>>, "plain", 1, 1, <<3, 4>>, 0),
     N("Scalar", "!!str", <<"n", "a", "m", "e">>, "plain", 1, 1, <<>>, 0),
     N("Scalar", "!!str", <<"E2", "80", "A8">>, "double", 1, 7, <<>>, 0)
   >>],
  \* an unclosed quoted scalar in the only document
  \*   | name: "x
  [src |-> <<"n", "a", "m", "e", ":", " ", "\"", "x", "\n">>,
   docs |-> <<0>>,
   nodes |-> <<

   >>],
  \* a document that is a sequence
  \*   | - a
  [src |-> <<"-", " ", "a", "\n">>,
   docs |-> <<1>>,
   nodes |-> <<
     N("Document", "", <<>>, "plain", 1, 1, <<2>>, 0),
     N("Sequence", "!!seq", <<>>, "plain", 1, 1, <<3>>, 0),
     N("Scalar", "!!str", <<"a">>, "plain", 1, 3, <<>>, 0)
   >>],
  \* block-type keys over a scalar, an empty mapping, a sequence with a scalar item, a repeated label, an alias and a null; a block within a block
  \*   | variable: x
  \*   | locals: &a s
  \*   | resource:
  \*   |   a: {}
  \*   |   d: u
  \*   |   b:
  \*   |     c:
  \*   |       - m:
  \*   |           p: 1
  \*   |           p: 2
  \*   |         locals: {}
  \*   |       - t
  \*   |     c: {}
  \*   | dynamic: *a
  \*   | variable:
  \*   |   n: ~
  \*   | locals: {}
  [src |-> <<"v", "a", "r", "i", "a", "b", "l", "e", ":", " ", "x", "\n", "l", "o", "c", "a", "l", "s", ":", " ", "&", "a", " ", "s", "\n", "r", "e", "s", "o", "u", "r", "c", "e", ":", "\n", " ", " ", "a", ":", " ", "{", "}", "\n", " ", " ", "d", ":", " ", "u", "\n", " ", " ", "b", ":", "\n", " ", " ", " ", " ", "c", ":", "\n", " ", " ", " ", " ", " ", " ", "-", " ", "m", ":", "\n", " ", " ", " ", " ", " ", " ", " ", " ", " ", " ", "p", ":", " ", "1", "\n", " ", " ", " ", " ", " ", " ", " ", " ", " ", " ", "p", ":", " ", "2", "\n", " ", " ", " ", " ", " ", " ", " ", " ", "l", "o", "c", "a", "l", "s", ":", " ", "{", "}", "\n", " ", " ", " ", " ", " ", " ", "-", " ", "t", "\n", " ", " ", " ", " ", "c", ":", " ", "{", "}", "\n", "d", "y", "n", "a", "m", "i", "c", ":", " ", "*", "a", "\n", "v", "a", "r", "i", "a", "b", "l", "e", ":", "\n", " ", " ", "n", ":", " ", "~", "\n", "l", "o", "c", "a", "l", "s", ":", " ", "{", "}", "\n">>,
   docs |-> <<1>>,
   nodes |-> <<
     N("Document", "", <<>>, "plain", 1, 1, <<2>>, 0),
     N("Mapping", "!!map", <<>>, "plain", 1, 1, <<3, 4, 5, 6, 7, 8, 29, 30, 31, 32, 35, 36>>, 0),
     N("Scalar", "!!str", <<"v", "a", "r", "i", "a", "b", "l", "e">>, "plain", 1, 1, <<>>, 0),
     N("Scalar", "!!str", <<"x">>, "plain", 1, 11, <<>>, 0),
     N("Scalar", "!!str", <<"l", "o", "c", "a", "l", "s">>, "plain", 2, 1, <<>>, 0),
     N("Scalar", "!!str", <<"s">>, "plain", 2, 9, <<>>, 0),
     N("Scalar", "!!str", <<"r", "e", "s", "o", "u", "r", "c", "e">>, "plain", 3, 1, <<>>, 0),
     N("Mapping", "!!map", <<>>, "plain", 4, 3, <<9, 10, 11, 12, 13, 14>>, 0),
     N("Scalar", "!!str", <<"a">>, "plain", 4, 3, <<>>, 0),
     N("Mapping", "!!map", <<>>, "plain", 4, 6, <<>>, 0),
     N("Scalar", "!!str", <<"d">>, "plain", 5, 3, <<>>, 0),
     N("Scalar", "!!str", <<"u">>, "plain", 5, 6, <<>>, 0),
     N("Scalar", "!!str", <<"b">>, "plain", 6, 3, <<>>, 0),
     N("Mapping", "!!map", <<>>, "plain", 7, 5, <<15, 16, 27, 28>>, 0),
     N("Scalar", "!!str", <<"c">>, "plain", 7, 5, <<>>, 0),
     N("Sequence", "!!seq", <<>>, "plain", 8, 7, <<17, 26>>, 0),
     N("Mapping", "!!map", <<>>, "plain", 8, 9, <<18, 19, 24, 25>>, 0),
     N("Scalar", "!!str", <<"m">>, "plain", 8, 9, <<>>, 0),
     N("Mapping", "!!map", <<>>, "plain", 9, 11, <<20, 21, 22, 23>>, 0),
     N("Scalar", "!!str", <<"p">>, "plain", 9, 11, <<>>, 0),
     N("Scalar", "!!int", <<"1">>, "plain", 9, 14, <<>>, 0),
     N("Scalar", "!!str", <<"p">>, "plain", 10, 11, <<>>, 0),
     N("Scalar", "!!int", <<"2">>, "plain", 10, 14, <<>>, 0),
     N("Scalar", "!!str", <<"l", "o", "c", "a", "l", "s">>, "plain", 11, 9, <<>>, 0),
     N("Mapping", "!!map", <<>>, "plain", 11, 17, <<>>, 0),
     N("Scalar", "!!str", <<"t">>, "plain", 12, 9, <<>>, 0),
     N("Scalar", "!!str", <<"c">>, "plain", 13, 5, <<>>, 0),
     N("Mapping", "!!map", <<>>, "plain", 13, 8, <<>>, 0),
     N("Scalar", "!!str", <<"d", "y", "n", "a", "m", "i", "c">>, "plain", 14, 1, <<>>, 0),
     N("Alias", "", <<"a">>, "plain", 14, 10, <<>>, 6),
     N("Scalar", "!!str", <<"v", "a", "r", "i", "a", "b", "l", "e">>, "plain", 15, 1, <<>>, 0),
     N("Mapping", "!!map", <<>>, "plain", 16, 3, <<33, 34>>, 0),
     N("Scalar", "!!str", <<"n">>, "plain", 16, 3, <<>>, 0),
     N("Scalar", "!!null", <<"~">>, "plain", 16, 6, <<>>, 0),
     N("Scalar", "!!str", <<"l", "o", "c", "a", "l", "s">>, "plain", 17, 1, <<>>, 0),
     N("Mapping", "!!map", <<>>, "plain", 17, 9, <<>>, 0)
   >>],
  \* a block-type key over an empty mapping where a label is due, and one over an empty sequence
  \*   | variable: {}
  \*   | dynamic: []
  [src |-> <<"v", "a", "r", "i", "a", "b", "l", "e", ":", " ", "{", "}", "\n", "d", "y", "n", "a", "m", "i", "c", ":", " ", "[", "]", "\n">>,
   docs |-> <<1>>,
   nodes |-> <<
     N("Document", "", <<>>, "plain", 1, 1, <<2>>, 0),
     N("Mapping", "!!map", <<>>, "plain", 1, 1, <<3, 4, 5, 6>>, 0),
     N("Scalar", "!!str", <<"v", "a", "r", "i", "a", "b", "l", "e">>, "plain", 1, 1, <<>>, 0),
     N("Mapping", "!!map", <<>>, "plain", 1, 11, <<>>, 0),
     N("Scalar", "!!str", <<"d", "y", "n", "a", "m", "i", "c">>, "plain", 2, 1, <<>>, 0),
     N("Sequence", "!!seq", <<>>, "plain", 2, 10, <<>>, 0)
   >>],
  \* an anchored sequence that holds an alias of itself
  \*   | a: &x
  \*   |   - b
  \*   |   - *x
  \*   | c: *x
  [src |-> <<"a", ":", " ", "&", "x", "\n", " ", " ", "-", " ", "b", "\n", " ", " ", "-", " ", "*", "x", "\n", "c", ":", " ", "*", "x", "\n">>,
   docs |-> <<1>>,
   nodes |-> <<
     N("Document", "", <<>>, "plain", 1, 1, <<2>>, 0),
     N("Mapping", "!!map", <<>>, "plain", 1, 1, <<3, 4, 7, 8>>, 0),
     N("Scalar", "!!str", <<"a">>, "plain", 1, 1, <<>>, 0),
     N("Sequence", "!!seq", <<>>, "plain", 1, 4, <<5, 6>>, 0),
     N("Scalar", "!!str", <<"b">>, "plain", 2, 5, <<>>, 0),
     N("Alias", "", <<"x">>, "plain", 3, 5, <<>>, 4),
     N("Scalar", "!!str", <<"c">>, "plain", 4, 1, <<>>, 0),
     N("Alias", "", <<"x">>, "plain", 4, 4, <<>>, 4)
   >>]
  >>

\* The stream with the two nodes parseYAML allocates for emptyRoot at the end
\* of its table: yaml.Node{Kind: DocumentNode, Content: {{Kind: MappingNode}}}.
WithEmptyRoot(S) ==
  [S EXCEPT !.nodes = @ \o <<N("Document", "", <<>>, "plain", 0, 0, <<Len(@) + 2>>, 0),
                             N("Mapping", "", <<>>, "plain", 0, 0, <<>>, 0)>>]

emptyRoot(S) == Len(S.nodes) - 1

\* The streams with the nodes parseYAML may allocate.
Streams == <<>> \o [k \in 1..Len(StreamTables) |-> WithEmptyRoot(StreamTables[k])]

\* &hcl.File{Body: yamlbody.NewBody(&root, filename, src), Bytes: src}
File(S, root) == [Body |-> NewBody(S, root), Bytes |-> S.src]

\* parseYAML's return on a syntax error, with nil instead of the files
\* collected so far.
syntaxErrorDropsFiles(files, k) ==
  [files |-> <<>>, decodes |-> k,
   diags |-> <<Diag("Invalid YAML syntax", NoSubject, <<>>, <<>>)>>]

\* parseYAML's return on a syntax error at the k-th Decode call.
syntaxError(files, k) ==
  [files |-> files, decodes |-> k,
   diags |-> <<Diag("Invalid YAML syntax", NoSubject, <<>>, <<>>)>>]

\* The loop of parseYAML from the k-th Decode call on, and what follows it.
\* decodes counts the Decode calls that returned other than io.EOF.
RECURSIVE parseYAMLLoop(_, _, _)
parseYAMLLoop(S, k, files) ==
  IF k > Len(S.docs)
  THEN [files |-> IF Len(files) = 0 THEN <<File(S, emptyRoot(S))>> ELSE files,
        decodes |-> k - 1, diags |-> <<>>]
  ELSE IF S.docs[k] = 0 THEN syntaxError(files, k)
  ELSE IF \/ S.nodes[S.docs[k]].Kind = ""
          \/ S.nodes[S.docs[k]].Kind = "Document" /\ Len(S.nodes[S.docs[k]].Content) = 0
  THEN parseYAMLLoop(S, k + 1, files)
  ELSE parseYAMLLoop(S, k + 1, Append(files, File(S, S.docs[k])))

parseYAML(S) == parseYAMLLoop(S, 1, <<>>)

\* ------------------------------------------------------------------------
\* Trees a caller builds by hand and passes to NewBody(node, filename, src):
\* yaml.Node literals carry no position, no tag and no style unless the
\* caller sets them, and the node may be nil.
\* ------------------------------------------------------------------------

BuiltTrees ==
  <<
  \* NewBody(nil, filename, nil)
  [src |-> <<>>, root |-> Nil, nodes |-> <<>>],
  \* &yaml.Node{Kind: MappingNode, Content: {a, {Value: ""}, b, {Tag: "!!null"},
  \*   c, {Value: "null"}, d, {Value: "~"}, e, {Tag: "!!str", Value: ""}}}
  [src |-> <<>>, root |-> 1,
   nodes |-> <<
     N("Mapping", "", <<>>, "plain", 0, 0, <<2, 3, 4, 5, 6, 7, 8, 9, 10, 11>>, 0),
     N("Scalar", "", <<"a">>, "plain", 0, 0, <<>>, 0),
     N("Scalar", "", <<>>, "plain", 0, 0, <<>>, 0),
     N("Scalar", "", <<"b">>, "plain", 0, 0, <<>>, 0),
     N("Scalar", "!!null", <<>>, "plain", 0, 0, <<>>, 0),
     N("Scalar", "", <<"c">>, "plain", 0, 0, <<>>, 0),
     N("Scalar", "", <<"n", "u", "l", "l">>, "plain", 0, 0, <<>>, 0),
     N("Scalar", "", <<"d">>, "plain", 0, 0, <<>>, 0),
     N("Scalar", "", <<"~">>, "plain", 0, 0, <<>>, 0),
     N("Scalar", "", <<"e">>, "plain", 0, 0, <<>>, 0),
     N("Scalar", "!!str", <<>>, "plain", 0, 0, <<>>, 0)
   >>]
  >>

\* ------------------------------------------------------------------------
\* Schemas the callers pass (hcl.BodySchema)
\* ------------------------------------------------------------------------

AttrS(name, required) == [Name |-> name, Required |-> required]

BlockS(type, labelNames) == [Type |-> type, LabelNames |-> labelNames]

SchemaAttrs ==
  [Attributes |-> <<AttrS(StrName, TRUE), AttrS(StrCount, TRUE)>>, Blocks |-> <<>>]

SchemaCount ==
  [Attributes |-> <<AttrS(StrCount, TRUE)>>, Blocks |-> <<>>]

SchemaResource ==
  [Attributes |-> <<AttrS(StrName, FALSE)>>,
   Blocks |-> <<BlockS(StrResource, <<StrType, StrName>>)>>]

SchemaLocals ==
  [Attributes |-> <<>>,
   Blocks |-> <<BlockS(StrLocals, <<>>), BlockS(StrDynamic, <<>>)>>]

SchemaDeep ==
  [Attributes |-> <<>>,
   Blocks |-> <<BlockS(<<"b", "l", "k">>, <<<<"a">>, <<"b">>, <<"c">>, <<"d">>>>),
                BlockS(<<"o", "n", "e">>, <<StrName>>)>>]

\* The top level of a configuration file.
SchemaFile ==
  [Attributes |-> <<>>,
   Blocks |-> <<BlockS(StrVariable, <<StrName>>), BlockS(StrLocals, <<>>),
                BlockS(StrResource, <<StrType, StrName>>), BlockS(StrDynamic, <<>>)>>]

\* The meta-arguments of a resource block.
SchemaMeta ==
  [Attributes |-> <<AttrS(StrCount, FALSE), AttrS(StrForEach, FALSE)>>, Blocks |-> <<>>]

Schemas ==
  {SchemaAttrs, SchemaCount, SchemaResource, SchemaLocals, SchemaDeep, SchemaFile, SchemaMeta}

\* The schemas the decoder applies to each document of Docs.
SchemasFor(d) ==
  CASE d = 1 -> {SchemaAttrs, SchemaCount, SchemaResource}
    [] d = 2 -> {SchemaResource, SchemaLocals}
    [] d = 3 -> {SchemaDeep, SchemaLocals}
    [] d = 4 -> {SchemaAttrs, SchemaCount}
    [] d = 6 -> {SchemaFile, SchemaMeta}
    [] d > Len(Docs) -> {SchemaFile, SchemaAttrs}
    [] OTHER -> {SchemaAttrs, SchemaLocals}

\* ------------------------------------------------------------------------
\* The state machine: one document, the bodies derived from it, the Go maps
\* holding their hidden names, and the result of the latest call.
\* ------------------------------------------------------------------------

VARIABLES
  docId,    \* the document the front door decoded (an index into Docs)
  bodies,   \* the hcl.Body values alive, oldest first
  derived,  \* for each body: the call that returned it
  maps,     \* the Go maps (hiddenAttrs) on the heap
  last      \* the latest call: its operands and what it returned

vars == <<docId, bodies, derived, maps, last>>

\* The document the bodies are over: one of Docs, a stream of Streams, or one
\* of BuiltTrees.
D ==
  IF docId <= Len(Docs) THEN Docs[docId]
  ELSE IF docId <= Len(Docs) + Len(Streams) THEN Streams[docId - Len(Docs)]
  ELSE BuiltTrees[docId - Len(Docs) - Len(Streams)]

NoCall == [op |-> "none"]

\* parseYAML wraps the document root: yamlbody.NewBody(&root, filename, src).
Init ==
  /\ docId \in 1..Len(Docs)
  /\ bodies = <<NewBody(Docs[docId], Docs[docId].root)>>
  /\ derived = <<[how |-> "NewBody", from |-> 0]>>
  /\ maps = <<>>
  /\ last = NoCall

YAMLBodies == {i \in 1..Len(bodies) : IsYAMLBody(bodies[i])}

\* content, remain, diags := bodies[i].PartialContent(schema)
DoPartialContent(i, schema) ==
  /\ last = NoCall
  /\ Len(bodies) < MaxBodies
  /\ \E r \in {PartialContent(D, maps, bodies[i], schema)} :
         /\ bodies' = Append(bodies, r.unusedBody)
         /\ derived' = Append(derived, [how |-> "PartialContent", from |-> i,
                                        schema |-> schema, content |-> r.content])
         /\ maps' = r.maps
         /\ last' = [op |-> "PartialContent", body |-> i, schema |-> schema,
                     content |-> r.content, diags |-> r.diags,
                     remain |-> Len(bodies) + 1]
  /\ UNCHANGED docId

\* content, _, diags := bodies[i].PartialContent(schema): the caller drops
\* the remainder, so its map is garbage when the call returns.
DoPartialContentDrop(i, schema) ==
  /\ last = NoCall
  /\ \E r \in {PartialContent(D, maps, bodies[i], schema)} :
         /\ maps' = SubSeq(r.maps, 1, Len(maps))
         /\ last' = [op |-> "PartialContent", body |-> i, schema |-> schema,
                     content |-> r.content, diags |-> r.diags, remain |-> 0]
  /\ UNCHANGED <<docId, bodies, derived>>

\* content, diags := bodies[i].Content(schema); the remainder built inside
\* the call is dropped, so its map is garbage when the call returns.
DoContent(i, schema) ==
  /\ last = NoCall
  /\ \E r \in {Content(D, maps, bodies[i], schema)} :
         /\ maps' = SubSeq(r.maps, 1, Len(maps))
         /\ last' = [op |-> "Content", body |-> i, schema |-> schema,
                     content |-> r.content, diags |-> r.diags]
  /\ UNCHANGED <<docId, bodies, derived>>

\* attrs, diags := bodies[i].JustAttributes()
DoJustAttributes(i) ==
  /\ last = NoCall
  /\ \E r \in {JustAttributes(D, maps, bodies[i])} :
         last' = [op |-> "JustAttributes", body |-> i,
                  attrs |-> r.attrs, diags |-> r.diags]
  /\ UNCHANGED <<docId, bodies, derived, maps>>

\* The decoder descends into block k of the content just returned.
EnterBlock(k) ==
  /\ last.op \in {"PartialContent", "Content"}
  /\ k \in 1..Len(last.content.Blocks)
  /\ Len(bodies) < MaxBodies
  /\ bodies' = Append(bodies, last.content.Blocks[k].Body)
  /\ derived' = Append(derived, [how |-> "Block", from |-> last.body,
                                 block |-> last.content.Blocks[k]])
  /\ last' = NoCall
  /\ UNCHANGED <<docId, maps>>

\* The caller has finished with what the latest call returned.
Done ==
  /\ last # NoCall
  /\ last' = NoCall
  /\ UNCHANGED <<docId, bodies, derived, maps>>

Next ==
  \/ \E i \in YAMLBodies, schema \in SchemasFor(docId) : DoPartialContent(i, schema)
  \/ \E i \in YAMLBodies, schema \in SchemasFor(docId) : DoPartialContentDrop(i, schema)
  \/ \E i \in YAMLBodies, schema \in SchemasFor(docId) : DoContent(i, schema)
  \/ \E i \in YAMLBodies : DoJustAttributes(i)
  \/ \E k \in 1..3 : EnterBlock(k)
  \/ Done

Spec == Init /\ [][Next]_vars

\* ------------------------------------------------------------------------
\* Evaluating the expressions of a body's attributes
\* ------------------------------------------------------------------------

\* val, diags := attrs[name].Expr.Value(ctx), ctx an index into Ctxs or nil.
DoValue(name, ctx) ==
  /\ last.op = "JustAttributes"
  /\ name \in DOMAIN last.attrs
  /\ \E r \in {Value(D, last.attrs[name].Expr, ctx)} :
         last' = [op |-> "Value", body |-> last.body, name |-> name,
                  src |-> last.attrs[name].Expr,
                  ctx |-> ctx, val |-> r.val, diags |-> r.diags]
  /\ UNCHANGED <<docId, bodies, derived, maps>>

\* traversals := attrs[name].Expr.Variables()
DoVariables(name) ==
  /\ last.op = "JustAttributes"
  /\ name \in DOMAIN last.attrs
  /\ LET src == last.attrs[name].Expr
     IN  last' = [op |-> "Variables", body |-> last.body, name |-> name, src |-> src,
                  traversals |-> Variables(D, src)]
  /\ UNCHANGED <<docId, bodies, derived, maps>>

\* The names of the attributes the latest call returned.
AttrsReturned == IF last.op = "JustAttributes" THEN DOMAIN last.attrs ELSE {}

NextExpr ==
  \/ \E i \in YAMLBodies : DoJustAttributes(i)
  \/ \E name \in AttrsReturned, ctx \in 0..Len(Ctxs) : DoValue(name, ctx)
  \/ \E name \in AttrsReturned : DoVariables(name)
  \/ Done

SpecExpr == Init /\ [][NextExpr]_vars

\* ------------------------------------------------------------------------
\* The decoder's gatekeeper calls, on YAML bodies and on native bodies
\* ------------------------------------------------------------------------

\* The native parser's blocks of a .tf file: their types and where they are
\* defined.
NativeBlocks ==
  {[Type |-> t, DefRange |-> RangeIn(Pos(1, 1, 0), 1, Len(t))] :
     t \in {StrVariable, StrLocals, StrResource, StrDynamic}}

\* A native expression (any non-nil hcl.Expression) and its range.
NativeExpr == 1

NativeRange == RangeIn(Pos(2, 3, 12), 1, 5)

\* A file the native parser read joins the bodies.
LoadHCLBody ==
  /\ last = NoCall
  /\ Len(bodies) < MaxBodies
  /\ \A i \in 1..Len(bodies) : IsYAMLBody(bodies[i])
  /\ bodies' = Append(bodies, HCLBody)
  /\ derived' = Append(derived, [how |-> "hclsyntax", from |-> 0])
  /\ UNCHANGED <<docId, maps, last>>

\* The blocks the decoder holds for body i: those of the content just
\* returned for a YAML body, the native ones for a native body.
BlocksOf(i) ==
  IF derived[i].how # "hclsyntax"
  THEN IF last.op \in {"PartialContent", "Content"} /\ last.body = i
       THEN Range(last.content.Blocks) ELSE {}
  ELSE IF last = NoCall THEN NativeBlocks ELSE {}

\* The count and for_each arguments the decoder holds for body i, as
\* <<expression, range>> pairs; a nil expression comes with the zero range.
MetaArgsOf(i, name) ==
  IF derived[i].how # "hclsyntax"
  THEN IF last.op \in {"PartialContent", "Content"} /\ last.body = i
       THEN IF name \in DOMAIN last.content.Attributes
            THEN {<<last.content.Attributes[name].Expr, last.content.Attributes[name].NameRange>>}
            ELSE {<<Nil, ZeroRange>>}
       ELSE {}
  ELSE IF last = NoCall THEN {<<Nil, ZeroRange>>, <<NativeExpr, NativeRange>>} ELSE {}

\* diag := ValidateYAMLBlockType(block, bodies[i])
DoValidateYAMLBlockType(i, block) ==
  /\ block \in BlocksOf(i)
  /\ last' = [op |-> "ValidateYAMLBlockType", body |-> i, Type |-> block.Type,
              DefRange |-> block.DefRange, block |-> block,
              diags |-> ValidateYAMLBlockType(block, bodies[i])]
  /\ UNCHANGED <<docId, bodies, derived, maps>>

\* diags := ValidateYAMLNoCountOrForEach(bodies[i], count, forEach, ...)
DoValidateYAMLNoCountOrForEach(i, count, forEach) ==
  /\ count \in MetaArgsOf(i, StrCount)
  /\ forEach \in MetaArgsOf(i, StrForEach)
  /\ last' = [op |-> "ValidateYAMLNoCountOrForEach", body |-> i,
              countExpr |-> count[1], forEachExpr |-> forEach[1],
              countRange |-> count[2], forEachRange |-> forEach[2],
              diags |-> ValidateYAMLNoCountOrForEach(bodies[i], count[1], forEach[1],
                                                     count[2], forEach[2])]
  /\ UNCHANGED <<docId, bodies, derived, maps>>

\* diag := ValidateYAMLNoDynamicBlock(block, bodies[i])
DoValidateYAMLNoDynamicBlock(i, block) ==
  /\ block \in BlocksOf(i)
  /\ last' = [op |-> "ValidateYAMLNoDynamicBlock", body |-> i, Type |-> block.Type,
              DefRange |-> block.DefRange,
              diags |-> ValidateYAMLNoDynamicBlock(block, bodies[i])]
  /\ UNCHANGED <<docId, bodies, derived, maps>>

NextGate ==
  \/ \E i \in YAMLBodies, schema \in SchemasFor(docId) : DoContent(i, schema)
  \/ \E k \in 1..3 : EnterBlock(k)
  \/ LoadHCLBody
  \/ \E i \in 1..Len(bodies) : \E block \in BlocksOf(i) : DoValidateYAMLBlockType(i, block)
  \/ \E i \in 1..Len(bodies) :
       \E count \in MetaArgsOf(i, StrCount), forEach \in MetaArgsOf(i, StrForEach) :
         DoValidateYAMLNoCountOrForEach(i, count, forEach)
  \/ \E i \in 1..Len(bodies) : \E block \in BlocksOf(i) : DoValidateYAMLNoDynamicBlock(i, block)
  \/ Done

SpecGate == Init /\ [][NextGate]_vars

\* ------------------------------------------------------------------------
\* Properties of the body adapter
\* ------------------------------------------------------------------------

ContentCall == last.op \in {"PartialContent", "Content"}

DiagsOf(diags, summary) == SelectSeq(diags, LAMBDA d : d.Summary = summary)

\* Name and Subject of each diagnostic of a list.
NameAndSubject(diags) ==
  [k \in 1..Len(diags) |-> [Name |-> diags[k].Name, Subject |-> diags[k].Subject]]

SchemaNames(schema) == AttrNames(schema) \cup BlockTypes(schema)

\* The key of every entry of the mapping behind body b, in mapping order.
EntryKeys(b) ==
  IF b.node = Nil \/ D.nodes[b.node].Kind # "Mapping" THEN <<>>
  ELSE [i \in 1..(Len(D.nodes[b.node].Content) \div 2) |->
          D.nodes[b.node].Content[2 * i - 1]]

EntryValue(b, i) == D.nodes[b.node].Content[2 * i]

KeyName(keyNode) == D.nodes[keyNode].Value

\* C1, first half: the hidden names of a remainder include the hidden names
\* of the body PartialContent was called on to produce it.
RemainderKeepsHidden ==
  \A i \in 1..Len(bodies) :
    derived[i].how = "PartialContent" =>
      Hidden(maps, bodies[derived[i].from]) \subseteq Hidden(maps, bodies[i])

\* C1, second half: a step changes neither the node nor the hidden names of
\* a body that exists before it, the body the call is made on included.
BodiesUntouched ==
  \A i \in 1..Len(bodies) :
    /\ i <= Len(bodies')
    /\ bodies'[i] = bodies[i]
    /\ Hidden(maps', bodies'[i]) = Hidden(maps, bodies[i])

\* C1: along every chain of PartialContent calls b -> r1 -> r2 -> ..., each
\* remainder hides a superset of the names hidden by the body it was derived
\* from, and no call changes the hidden names or the node of the body it was
\* called on.
C1_HiddenNamesGrow == [](RemainderKeepsHidden) /\ [][BodiesUntouched]_vars

\* A chain root -> r1 -> r2 whose hidden names grow strictly at each call.
C1_Witness ==
  /\ Len(bodies) = 3
  /\ derived[2].how = "PartialContent" /\ derived[2].from = 1
  /\ derived[3].how = "PartialContent" /\ derived[3].from = 2
  /\ Hidden(maps, bodies[2]) # {}
  /\ Hidden(maps, bodies[2]) # Hidden(maps, bodies[3])
  /\ bodies[1].hiddenAttrs = Nil

\* The latest call is PartialContent(s2) on the remainder of a
\* PartialContent(s1) call, and s1 and s2 name disjoint things.
Sequential ==
  /\ last.op = "PartialContent"
  /\ derived[last.body].how = "PartialContent"
  /\ SchemaNames(derived[last.body].schema) \cap SchemaNames(last.schema) = {}

MergeSchemas(s1, s2) ==
  [Attributes |-> s1.Attributes \o s2.Attributes, Blocks |-> s1.Blocks \o s2.Blocks]

MergeAttributes(a1, a2) ==
  [n \in DOMAIN a1 \cup DOMAIN a2 |-> IF n \in DOMAIN a1 THEN a1[n] ELSE a2[n]]

\* The two results of the sequence, merged.
SeqAttributes == MergeAttributes(derived[last.body].content.Attributes, last.content.Attributes)

SeqBlocks == derived[last.body].content.Blocks \o last.content.Blocks

\* One call with s1 \cup s2 on the body the sequence started from.
SingleCall ==
  PartialContent(D, maps, bodies[derived[last.body].from],
                 MergeSchemas(derived[last.body].schema, last.schema)).content

SameFunction(f, g) == DOMAIN f = DOMAIN g /\ \A n \in DOMAIN f : f[n] = g[n]

BlocksOfType(blocks, t) == SelectSeq(blocks, LAMBDA blk : blk.Type = t)

\* C2 as stated: PartialContent(s1) then PartialContent(s2) on the remainder
\* yields, merged, the same attributes and the same ordered list of blocks as
\* one PartialContent(s1 \cup s2) call.
C2_SequenceEqualsSingleCall ==
  Sequential =>
    /\ SameFunction(SeqAttributes, SingleCall.Attributes)
    /\ SeqBlocks = SingleCall.Blocks

\* C2, amended: the sequence yields the same attributes and, for every block
\* type, the same ordered list of blocks of that type as the single call; the
\* order of blocks of different types may differ (the sequence lists the
\* blocks of s1 before those of s2, the single call lists them in the order
\* of the keys in the mapping).
C2_SequenceEqualsSingleCallPerType ==
  Sequential =>
    /\ SameFunction(SeqAttributes, SingleCall.Attributes)
    /\ Len(SeqBlocks) = Len(SingleCall.Blocks)
    /\ \A t \in BlockTypes(derived[last.body].schema) \cup BlockTypes(last.schema) :
         BlocksOfType(SeqBlocks, t) = BlocksOfType(SingleCall.Blocks, t)

\* A sequence whose merged block list is ordered differently from the single
\* call's, both calls having returned blocks.
C2_Witness ==
  /\ Sequential
  /\ derived[last.body].content.Blocks # <<>>
  /\ last.content.Blocks # <<>>
  /\ SeqBlocks # SingleCall.Blocks

\* The entries of the mapping behind body b that Content must report under
\* schema: every key that is not "//", that the schema does not name, and
\* that is not hidden in b; mapping order, one item per entry.
ExtraneousEntries(b, schema) ==
  LET keys  == EntryKeys(b)
      wrong == SelectSeq(keys, LAMBDA k :
                 /\ KeyName(k) # StrComment
                 /\ KeyName(k) \notin SchemaNames(schema)
                 /\ KeyName(k) \notin Hidden(maps, b))
  IN  [i \in 1..Len(wrong) |->
         [Name |-> KeyName(wrong[i]), Subject |-> nodeRange(D, wrong[i])]]

\* C3: Content(schema) emits exactly one "Extraneous YAML property"
\* diagnostic, at the key's range, for every mapping entry whose key is not
\* "//", is not named by the schema and is not hidden in the body, and for no
\* other entry.
C3_ExtraneousExactlyUnconsumed ==
  last.op = "Content" =>
    NameAndSubject(DiagsOf(last.diags, "Extraneous YAML property"))
      = ExtraneousEntries(bodies[last.body], last.schema)

\* Content on a body that hides a name the schema does not mention, whose
\* mapping holds that name, a "//" key and a key nobody consumed.
C3_Witness ==
  /\ last.op = "Content"
  /\ Hidden(maps, bodies[last.body]) \ SchemaNames(last.schema) # {}
  /\ \E i \in 1..Len(EntryKeys(bodies[last.body])) :
       KeyName(EntryKeys(bodies[last.body])[i]) = StrComment
  /\ \E i \in 1..Len(EntryKeys(bodies[last.body])) :
       KeyName(EntryKeys(bodies[last.body])[i])
         \in Hidden(maps, bodies[last.body]) \ SchemaNames(last.schema)
  /\ DiagsOf(last.diags, "Extraneous YAML property") # <<>>

\* Whether a can be turned into b by at most k single-character insertions,
\* deletions and substitutions.
RECURSIVE WithinEdits(_, _, _)
WithinEdits(a, b, k) ==
  IF a = <<>> THEN Len(b) <= k
  ELSE IF b = <<>> THEN Len(a) <= k
  ELSE IF Head(a) = Head(b) THEN WithinEdits(Tail(a), Tail(b), k)
  ELSE /\ k > 0
       /\ \/ WithinEdits(Tail(a), b, k - 1)
          \/ WithinEdits(a, Tail(b), k - 1)
          \/ WithinEdits(Tail(a), Tail(b), k - 1)

\* C4: the suggestion of an "Extraneous YAML property" diagnostic for key k
\* is, when present, a schema attribute name or block type within edit
\* distance 2 of k; when no schema name is within distance 2 there is no
\* suggestion.
C4_SuggestionWithinTwoEdits ==
  last.op = "Content" =>
    \A i \in 1..Len(last.diags) :
      last.diags[i].Summary = "Extraneous YAML property" =>
        /\ last.diags[i].Suggestion # <<>> =>
             /\ last.diags[i].Suggestion \in SchemaNames(last.schema)
             /\ WithinEdits(last.diags[i].Name, last.diags[i].Suggestion, 2)
        /\ (\A n \in SchemaNames(last.schema) :
              ~WithinEdits(last.diags[i].Name, n, 2))
             => last.diags[i].Suggestion = <<>>

\* Content reports `conut` and suggests `count`, and reports another key
\* without a suggestion.
C4_Witness ==
  /\ last.op = "Content"
  /\ \E i \in 1..Len(last.diags) :
       /\ last.diags[i].Summary = "Extraneous YAML property"
       /\ last.diags[i].Name = <<"c", "o", "n", "u", "t">>
       /\ last.diags[i].Suggestion = StrCount
  /\ \E i \in 1..Len(last.diags) :
       /\ last.diags[i].Summary = "Extraneous YAML property"
       /\ last.diags[i].Suggestion = <<>>

\* The paths of n label levels below node v, depth first and in mapping
\* order: the keys passed on the way and the node reached.
RECURSIVE LabelPaths(_, _)
LabelPaths(v, n) ==
  IF n = 0 THEN <<[labels |-> <<>>, leaf |-> v]>>
  ELSE IF D.nodes[v].Kind # "Mapping" THEN <<>>
  ELSE LET c == D.nodes[v].Content
           under(i) == LabelPaths(c[2 * i], n - 1)
       IN  Concat([i \in 1..(Len(c) \div 2) |->
                     [k \in 1..Len(under(i)) |->
                        [labels |-> <<KeyName(c[2 * i - 1])>> \o under(i)[k].labels,
                         leaf   |-> under(i)[k].leaf]]])

\* The nodes that become block bodies at the end of a path: the mapping
\* itself, or each item of a sequence.
LeafBodies(leaf) ==
  CASE D.nodes[leaf].Kind = "Mapping"  -> <<leaf>>
    [] D.nodes[leaf].Kind = "Sequence" -> D.nodes[leaf].Content
    [] OTHER -> <<>>

LabelCount(schema, type) ==
  Len((CHOOSE s \in Range(schema.Blocks) : s.Type = type).LabelNames)

\* Type, labels and body node of the blocks expected from body b under
\* schema: key by key in mapping order, and under each block-type key path by
\* path.
ExpectedBlocks(b, schema) ==
  LET keys == EntryKeys(b)
      ofPath(type, p) ==
        [k \in 1..Len(LeafBodies(p.leaf)) |->
           [Type |-> type, Labels |-> p.labels, node |-> LeafBodies(p.leaf)[k]]]
      ofKey(i) ==
        IF /\ KeyName(keys[i]) \in BlockTypes(schema) \ AttrNames(schema)
           /\ KeyName(keys[i]) \notin Hidden(maps, b)
        THEN LET paths == LabelPaths(EntryValue(b, i),
                                     LabelCount(schema, KeyName(keys[i])))
             IN  Concat([k \in 1..Len(paths) |-> ofPath(KeyName(keys[i]), paths[k])])
        ELSE <<>>
  IN  Concat([i \in 1..Len(keys) |-> ofKey(i)])

\* C5: the blocks PartialContent returns are the depth-first, mapping-order
\* enumeration of the nested label mappings under each block-type key, each
\* block with exactly as many labels as its schema declares, equal to the
\* keys on its own path, and the blocks of different keys in the order of
\* those keys in the mapping.
C5_BlocksEnumerateLabelPaths ==
  ContentCall =>
    /\ [k \in 1..Len(last.content.Blocks) |->
          [Type   |-> last.content.Blocks[k].Type,
           Labels |-> last.content.Blocks[k].Labels,
           node   |-> last.content.Blocks[k].Body.node]]
         = ExpectedBlocks(bodies[last.body], last.schema)
    /\ \A k \in 1..Len(last.content.Blocks) :
         /\ Len(last.content.Blocks[k].Labels)
              = LabelCount(last.schema, last.content.Blocks[k].Type)
         /\ Len(last.content.Blocks[k].LabelRanges)
              = Len(last.content.Blocks[k].Labels)

\* Two blocks of a four-label type that differ in their last label only (the
\* label buffer was appended to in place for both), followed by a block of
\* another type.
C5_Witness ==
  /\ ContentCall
  /\ \E i, j, k \in 1..Len(last.content.Blocks) :
       /\ i < j /\ j < k
       /\ Len(last.content.Blocks[i].Labels) = 4
       /\ Len(last.content.Blocks[j].Labels) = 4
       /\ SubSeq(last.content.Blocks[i].Labels, 1, 3)
            = SubSeq(last.content.Blocks[j].Labels, 1, 3)
       /\ last.content.Blocks[i].Labels[4] # last.content.Blocks[j].Labels[4]
       /\ last.content.Blocks[k].Type # last.content.Blocks[i].Type

\* The nodes of the tree below and including node n.
RECURSIVE NodesUnder(_)
NodesUnder(n) ==
  {n} \cup UNION {NodesUnder(D.nodes[n].Content[i]) : i \in 1..Len(D.nodes[n].Content)}

\* C6: PartialContent emits exactly one "Missing required argument"
\* diagnostic for every required schema attribute absent from the returned
\* attributes and none for one that is present; its subject is zero-width and
\* lies at the end of the mapping's content (the end of the mapping's range,
\* which no node of the mapping starts after).
C6_MissingRequiredAtEnd ==
  ContentCall =>
    LET b       == bodies[last.body]
        missing == SelectSeq(last.schema.Attributes, LAMBDA s :
                     s.Required /\ s.Name \notin DOMAIN last.content.Attributes)
        got     == DiagsOf(last.diags, "Missing required argument")
    IN  /\ [k \in 1..Len(got) |-> got[k].Name]
             = [k \in 1..Len(missing) |-> missing[k].Name]
        /\ \A k \in 1..Len(got) :
             /\ got[k].Subject.Start = got[k].Subject.End
             /\ got[k].Subject.End = nodeRange(D, b.node).End
             /\ got[k].Subject = last.content.MissingItemRange
             /\ \A n \in (IF b.node = Nil THEN {} ELSE NodesUnder(b.node)) :
                  nodeRange(D, n).Start.Byte <= got[k].Subject.Start.Byte

\* A schema with two required attributes met a mapping that sets one of them
\* and not the other, so one diagnostic points past the mapping's entries.
C6_Witness ==
  /\ ContentCall
  /\ \E i \in 1..Len(last.schema.Attributes) :
       /\ last.schema.Attributes[i].Required
       /\ last.schema.Attributes[i].Name \in DOMAIN last.content.Attributes
  /\ \E k \in 1..Len(last.diags) :
       /\ last.diags[k].Summary = "Missing required argument"
       /\ last.diags[k].Subject.Start.Byte > 0

\* ------------------------------------------------------------------------
\* Claims about the expression adapter (under SpecExpr)
\* ------------------------------------------------------------------------

\* The latest call is Value on a scalar node.
ScalarValueCall == last.op = "Value" /\ D.nodes[last.src].Kind = "Scalar"

\* val is the string text.
IsString(val, text) == val.ty = "string" /\ val.v = text

\* Two results of Value are the same value with the same diagnostics.
SameResult(r1, r2) ==
  /\ r1.val.ty = r2.val.ty
  /\ r1.val.ty \in {"bool", "number", "string"} => r1.val.v = r2.val.v
  /\ r1.diags = r2.diags

\* Whether text holds an interpolation opener.
HasInterpolation(text) ==
  \E j \in 1..(Len(text) - 1) : text[j] = "$" /\ text[j + 1] = "{"

\* The scalar is one evalScalar resolves as null, as a boolean or as a number.
ResolvedByTag(n) ==
  \/ n.Tag = "!!null" \/ n.Value = StrNull \/ n.Value = StrTilde
  \/ n.Tag = "!!bool" /\ n.Value \in BoolTrueTexts \cup BoolFalseTexts
  \/ n.Tag \in {"!!int", "!!float"} /\ ParseFloat(n.Value).ok

\* The scalar evaluated is taken as a string and its text parses as a template.
TemplateEvaluated ==
  /\ ScalarValueCall
  /\ last.ctx # Nil
  /\ ~ResolvedByTag(D.nodes[last.src])
  /\ D.nodes[last.src].Tag # "!!binary"
  /\ ParseTemplate(D.nodes[last.src].Value, nodeRange(D, last.src).Start).diags = <<>>

\* What the restriction walker reports for the template of the scalar evaluated.
WalkerDiags ==
  ValidateTemplateExpression(
    ParseTemplate(D.nodes[last.src].Value, nodeRange(D, last.src).Start).expr)

\* C7: whenever a string scalar is evaluated with a non-nil context, its
\* template has been through the restriction walker: every "... not supported
\* in YAML" diagnostic the walker has for the template (a function call, a
\* for expression, a conditional) is among the diagnostics Value(ctx) returned.
C7_TemplateRestrictionsReported ==
  TemplateEvaluated =>
    \A k \in 1..Len(WalkerDiags) :
      \E j \in 1..Len(last.diags) : last.diags[j].Summary = WalkerDiags[k].Summary

\* C8 as stated: every scalar not tagged !!binary evaluates, without a
\* context, to the literal string of its text, with no diagnostics.
C8_NilContextLiteralString ==
  (ScalarValueCall /\ last.ctx = Nil /\ D.nodes[last.src].Tag # "!!binary") =>
    /\ IsString(last.val, D.nodes[last.src].Value)
    /\ last.diags = <<>>

\* C8, amended: a scalar not tagged !!binary that is not resolved as null, as
\* a boolean or as a number evaluates, without a context, to the literal
\* string of its text (no interpolation) with no diagnostics; a scalar that is
\* so resolved evaluates to a null, a bool or a number, never to a string.
C8_NilContextLiteralUnlessResolved ==
  (ScalarValueCall /\ last.ctx = Nil /\ D.nodes[last.src].Tag # "!!binary") =>
    /\ last.diags = <<>>
    /\ IF ResolvedByTag(D.nodes[last.src])
       THEN last.val.ty \in {"null", "bool", "number"}
       ELSE IsString(last.val, D.nodes[last.src].Value)

\* A text with an interpolation sequence came back as it is written.
C8_Witness ==
  /\ ScalarValueCall
  /\ last.ctx = Nil
  /\ D.nodes[last.src].Tag # "!!binary"
  /\ HasInterpolation(D.nodes[last.src].Value)
  /\ IsString(last.val, D.nodes[last.src].Value)
  /\ last.diags = <<>>

\* C9: a scalar tagged !!binary is never parsed as a template: Value returns
\* for it the same value and diagnostics under every context, the nil one
\* included, and Variables returns no traversals, whatever its text.
C9_BinaryIsOpaque ==
  /\ (ScalarValueCall /\ D.nodes[last.src].Tag = "!!binary") =>
       /\ \A ctx \in 0..Len(Ctxs) :
            SameResult(Value(D, last.src, ctx), Result(last.val, last.diags))
       /\ Variables(D, last.src) = <<>>
  /\ (last.op = "Variables" /\ D.nodes[last.src].Kind = "Scalar"
      /\ D.nodes[last.src].Tag = "!!binary") =>
       last.traversals = <<>>

\* A binary scalar whose text is ${v} was evaluated where v is defined, and
\* its text came back.
C9_Witness ==
  /\ ScalarValueCall
  /\ D.nodes[last.src].Tag = "!!binary"
  /\ HasInterpolation(D.nodes[last.src].Value)
  /\ last.ctx # Nil
  /\ ~Ctxs[last.ctx].nilMaps
  /\ IsString(last.val, D.nodes[last.src].Value)
  /\ last.diags = <<>>

\* ------------------------------------------------------------------------
\* Claims about the gatekeepers (under SpecGate)
\* ------------------------------------------------------------------------

\* Body i was produced by the adapter: by NewBody, as a remainder or as the
\* body of a block.
FromAdapter(i) == derived[i].how \in {"NewBody", "PartialContent", "Block"}

Summaries(diags) == {diags[j].Summary : j \in 1..Len(diags)}

\* C10: each gatekeeper returns a diagnostic exactly when the body it is
\* given was produced by the adapter and the forbidden feature is there (a
\* block of type variable or locals; a count expression; a for_each
\* expression; a block of type dynamic); for any other body it returns
\* nothing, whatever the block type or the meta-arguments.
C10_GatekeepersOnlyForYAML ==
  /\ last.op = "ValidateYAMLBlockType" =>
       /\ Len(last.diags) <= 1
       /\ "Variables not supported in YAML" \in Summaries(last.diags)
            <=> (FromAdapter(last.body) /\ last.Type = StrVariable)
       /\ "Locals not supported in YAML" \in Summaries(last.diags)
            <=> (FromAdapter(last.body) /\ last.Type = StrLocals)
       /\ last.diags # <<>> => last.Type \in {StrVariable, StrLocals}
  /\ last.op = "ValidateYAMLNoDynamicBlock" =>
       /\ Len(last.diags) <= 1
       /\ last.diags # <<>> <=> (FromAdapter(last.body) /\ last.Type = StrDynamic)
  /\ last.op = "ValidateYAMLNoCountOrForEach" =>
       /\ "count not supported in YAML" \in Summaries(last.diags)
            <=> (FromAdapter(last.body) /\ last.countExpr # Nil)
       /\ "for_each not supported in YAML" \in Summaries(last.diags)
            <=> (FromAdapter(last.body) /\ last.forEachExpr # Nil)
       /\ Len(last.diags) = Cardinality(Summaries(last.diags))
       /\ Summaries(last.diags)
            \subseteq {"count not supported in YAML", "for_each not supported in YAML"}
  /\ (last.op \in {"ValidateYAMLBlockType", "ValidateYAMLNoDynamicBlock",
                   "ValidateYAMLNoCountOrForEach"}
      /\ ~FromAdapter(last.body)) => last.diags = <<>>

\* A variable block of a native body passed, next to a YAML body.
C10_Witness ==
  /\ last.op = "ValidateYAMLBlockType"
  /\ ~FromAdapter(last.body)
  /\ last.Type = StrVariable
  /\ last.diags = <<>>
  /\ \E i \in 1..Len(bodies) : FromAdapter(i)

\* ------------------------------------------------------------------------
\* The restriction walker on expression trees (restrictions.go). A tree is
\* grown from a leaf by wrapping it, one node at a time, in every node kind
\* of hclsyntax the walker's switch names, at every child position, next to
\* a sibling; ObjectConsKeyExpr, the wrapper hclsyntax puts around the keys
\* of an object constructor, is the one kind grown that the switch does not
\* name.
\* ------------------------------------------------------------------------

\* The most wrappers around the leaf of a tree.
MaxWraps == 2

ForExpr(collExpr, keyExpr, valExpr, condExpr) ==
  [kind |-> "ForExpr", CollExpr |-> collExpr, KeyExpr |-> keyExpr,
   ValExpr |-> valExpr, CondExpr |-> condExpr, SrcRange |-> ZeroRange]

\* The expression nodes without children.
LeafExprs ==
  {LiteralValueExpr(CtyString(StrName), ZeroRange),
   ScopeTraversalExpr(<<StrName>>, ZeroRange),
   [kind |-> "AnonSymbolExpr", SrcRange |-> ZeroRange],
   FunctionCallExpr(StrName, <<>>, ZeroRange)}

\* The expressions put next to the wrapped one.
SiblingExprs ==
  {LiteralValueExpr(CtyString(StrName), ZeroRange),
   FunctionCallExpr(StrName, <<>>, ZeroRange)}

\* The nodes that hold e as a child, with s as the other child where the
\* kind has one (a for expression without key and condition holds nil there).
WrapExprs(e, s) ==
  {FunctionCallExpr(StrName, <<e>>, ZeroRange),
   FunctionCallExpr(StrName, <<s, e>>, ZeroRange),
   ForExpr(e, NilExpr, s, NilExpr), ForExpr(s, e, s, NilExpr),
   ForExpr(s, NilExpr, e, NilExpr), ForExpr(s, NilExpr, s, e),
   ConditionalExpr(e, s, s, ZeroRange), ConditionalExpr(s, e, s, ZeroRange),
   ConditionalExpr(s, s, e, ZeroRange),
   TemplateExpr(<<e>>, ZeroRange), TemplateExpr(<<s, e>>, ZeroRange),
   TemplateWrapExpr(e, ZeroRange),
   [kind |-> "RelativeTraversalExpr", Source |-> e, SrcRange |-> ZeroRange],
   [kind |-> "IndexExpr", Collection |-> e, Key |-> s, SrcRange |-> ZeroRange],
   [kind |-> "IndexExpr", Collection |-> s, Key |-> e, SrcRange |-> ZeroRange],
   [kind |-> "BinaryOpExpr", LHS |-> e, RHS |-> s, SrcRange |-> ZeroRange],
   [kind |-> "BinaryOpExpr", LHS |-> s, RHS |-> e, SrcRange |-> ZeroRange],
   [kind |-> "UnaryOpExpr", Val |-> e, SrcRange |-> ZeroRange],
   [kind |-> "TupleConsExpr", Exprs |-> <<e>>, SrcRange |-> ZeroRange],
   [kind |-> "TupleConsExpr", Exprs |-> <<e, s>>, SrcRange |-> ZeroRange],
   [kind |-> "ObjectConsExpr", Items |-> <<[KeyExpr |-> e, ValueExpr |-> s]>>,
    SrcRange |-> ZeroRange],
   [kind |-> "ObjectConsExpr", Items |-> <<[KeyExpr |-> s, ValueExpr |-> e]>>,
    SrcRange |-> ZeroRange],
   [kind |-> "SplatExpr", Source |-> e, Each |-> s, SrcRange |-> ZeroRange],
   [kind |-> "SplatExpr", Source |-> s, Each |-> e, SrcRange |-> ZeroRange],
   [kind |-> "ParenthesesExpr", Expression |-> e, SrcRange |-> ZeroRange],
   [kind |-> "ObjectConsKeyExpr", Wrapped |-> e, SrcRange |-> ZeroRange]}

\* A caller holds a leaf expression.
DoLeafExpr(e) ==
  /\ last = NoCall
  /\ last' = [op |-> "Expr", expr |-> e, wraps |-> 0]
  /\ UNCHANGED <<docId, bodies, derived, maps>>

\* The caller's expression becomes the child of a new node.
DoWrapExpr(s) ==
  /\ last.op = "Expr"
  /\ last.wraps < MaxWraps
  /\ \E w \in WrapExprs(last.expr, s) :
         last' = [op |-> "Expr", expr |-> w, wraps |-> last.wraps + 1]
  /\ UNCHANGED <<docId, bodies, derived, maps>>

\* ValidateTemplateExpression(expr)
DoValidateTemplateExpression ==
  /\ last.op = "Expr"
  /\ last' = [op |-> "Validate", expr |-> last.expr,
              diags |-> ValidateTemplateExpression(last.expr)]
  /\ UNCHANGED <<docId, bodies, derived, maps>>

NextWalk ==
  \/ \E e \in LeafExprs : DoLeafExpr(e)
  \/ \E s \in SiblingExprs : DoWrapExpr(s)
  \/ DoValidateTemplateExpression
  \/ Done

\* The walker reads no document: one is fixed.
InitWalk == Init /\ docId = 1

SpecWalk == InitWalk /\ [][NextWalk]_vars

\* ------------------------------------------------------------------------
\* Claims about the restriction walker (under SpecWalk)
\* ------------------------------------------------------------------------

\* The child expressions of a node, in source order, nil ones left out.
ChildExprs(e) ==
  SelectSeq(
    CASE e.kind = "FunctionCallExpr" -> e.Args
      [] e.kind = "ForExpr" -> <<e.CollExpr, e.KeyExpr, e.ValExpr, e.CondExpr>>
      [] e.kind = "ConditionalExpr" -> <<e.Condition, e.TrueResult, e.FalseResult>>
      [] e.kind = "TemplateExpr" -> e.Parts
      [] e.kind \in {"TemplateWrapExpr", "ObjectConsKeyExpr"} -> <<e.Wrapped>>
      [] e.kind = "RelativeTraversalExpr" -> <<e.Source>>
      [] e.kind = "IndexExpr" -> <<e.Collection, e.Key>>
      [] e.kind = "BinaryOpExpr" -> <<e.LHS, e.RHS>>
      [] e.kind = "UnaryOpExpr" -> <<e.Val>>
      [] e.kind = "TupleConsExpr" -> e.Exprs
      [] e.kind = "ObjectConsExpr" ->
           Concat([i \in 1..Len(e.Items) |->
                     <<e.Items[i].KeyExpr, e.Items[i].ValueExpr>>])
      [] e.kind = "SplatExpr" -> <<e.Source, e.Each>>
      [] e.kind = "ParenthesesExpr" -> <<e.Expression>>
      [] OTHER -> <<>>,
    LAMBDA c : c.kind # "nil")

\* The number of nodes of the given kind in the tree.
RECURSIVE KindCount(_, _)
KindCount(e, kind) ==
  LET RECURSIVE Sum(_)
      Sum(cs) == IF cs = <<>> THEN 0 ELSE KindCount(Head(cs), kind) + Sum(Tail(cs))
  IN  (IF e.kind = kind THEN 1 ELSE 0) + Sum(ChildExprs(e))

\* The number of diagnostics with the given summary.
SummaryCount(diags, summary) ==
  Cardinality({k \in 1..Len(diags) : diags[k].Summary = summary})

\* The latest call is ValidateTemplateExpression on a tree of the kinds the
\* walker names.
ValidatedListedKinds ==
  /\ last.op = "Validate"
  /\ KindCount(last.expr, "ObjectConsKeyExpr") = 0

InitParse ==
  /\ docId \in (Len(Docs) + 1)..(Len(Docs) + Len(Streams))
  /\ bodies = <<>>
  /\ derived = <<>>
  /\ maps = <<>>
  /\ last = NoCall

\* files, diags := p.parseYAML(src, filename)
DoParseYAML ==
  /\ last = NoCall
  /\ bodies = <<>>
  /\ \E r \in {parseYAML(D)} :
         /\ bodies' = <<>> \o [k \in 1..Len(r.files) |-> r.files[k].Body]
         /\ derived' = <<>> \o [k \in 1..Len(r.files) |-> [how |-> "NewBody", from |-> 0]]
         /\ last' = [op |-> "parseYAML", files |-> r.files, diags |-> r.diags,
                     decodes |-> r.decodes]
  /\ UNCHANGED <<docId, maps>>

NextParse ==
  \/ DoParseYAML
  \/ \E i \in YAMLBodies, schema \in SchemasFor(docId) : DoContent(i, schema)
  \/ \E i \in YAMLBodies, schema \in SchemasFor(docId) : DoPartialContentDrop(i, schema)
  \/ \E i \in YAMLBodies : DoJustAttributes(i)
  \/ \E k \in 1..3 : EnterBlock(k)
  \/ \E i \in 1..Len(bodies) : \E block \in BlocksOf(i) : DoValidateYAMLBlockType(i, block)
  \/ Done

SpecParse == InitParse /\ [][NextParse]_vars

\* ------------------------------------------------------------------------
\* Claims about the front door (under SpecParse)
\* ------------------------------------------------------------------------

\* No Decode call on the stream fails.
NoSyntaxError == \A k \in 1..Len(D.docs) : D.docs[k] # 0

\* The first syntax error of the stream is at its k-th document.
FirstErrorAt(k) ==
  /\ k \in 1..Len(D.docs)
  /\ D.docs[k] = 0
  /\ \A j \in 1..(k - 1) : D.docs[j] # 0

\* The document has no content: nothing follows its separator.
EmptyDocument(root) ==
  \/ D.nodes[root].Content = <<>>
  \/ LET c == D.nodes[D.nodes[root].Content[1]]
     IN  c.Kind = "Scalar" /\ c.Value = <<>> /\ c.Style = "plain" /\ c.Tag = "!!null"

\* The content nodes of the documents with content among the first n.
NonEmptyRoots(n) ==
  LET roots == SelectSeq(SubSeq(D.docs, 1, n), LAMBDA r : r # 0 /\ ~EmptyDocument(r))
  IN  [k \in 1..Len(roots) |-> D.nodes[roots[k]].Content[1]]

\* The nodes the bodies of the files wrap.
FileNodes(files) == [k \in 1..Len(files) |-> files[k].Body.node]

IsEmptyMapping(node) ==
  node # Nil /\ D.nodes[node].Kind = "Mapping" /\ D.nodes[node].Content = <<>>

\* xs is ys with some items left out.
RECURSIVE IsSubsequence(_, _)
IsSubsequence(xs, ys) ==
  IF xs = <<>> THEN TRUE
  ELSE IF ys = <<>> THEN FALSE
  ELSE IF Head(xs) = Head(ys) THEN IsSubsequence(Tail(xs), Tail(ys))
  ELSE IsSubsequence(xs, Tail(ys))

\* C12: when no document of the stream has a syntax error, parseYAML returns
\* exactly one file per document with content, in document order (documents
\* without content are skipped), every file carrying the source bytes; when
\* no document has content (no input, or separators only) it returns exactly
\* one file whose body is an empty mapping; the diagnostics are empty.
C12_OneFilePerNonEmptyDocument ==
  (last.op = "parseYAML" /\ NoSyntaxError) =>
    /\ last.diags = <<>>
    /\ \A k \in 1..Len(last.files) : last.files[k].Bytes = D.src
    /\ IF NonEmptyRoots(Len(D.docs)) = <<>>
       THEN Len(last.files) = 1 /\ IsEmptyMapping(last.files[1].Body.node)
       ELSE FileNodes(last.files) = NonEmptyRoots(Len(D.docs))

TildeBody(i) ==
  /\ derived[i].how = "NewBody"
  /\ bodies[i].node # Nil
  /\ D.nodes[bodies[i].node].Kind = "Scalar"
  /\ D.nodes[bodies[i].node].Value = StrTilde

NoRequired(schema) ==
  \A k \in 1..Len(schema.Attributes) : ~schema.Attributes[k].Required

\* The latest call is Content or PartialContent on the body of a bare ~
\* document, with a schema without required attributes.
TildeContentCall ==
  /\ ContentCall
  /\ TildeBody(last.body)
  /\ NoRequired(last.schema)

EmptyContentNoDiags ==
  /\ last.content.Attributes = <<>>
  /\ last.content.Blocks = <<>>
  /\ last.diags = <<>>

BlockEntries(b, block) ==
  {e \in 1..Len(EntryKeys(b)) :
     /\ KeyName(EntryKeys(b)[e]) = block.Type
     /\ block.Body.node \in NodesUnder(EntryValue(b, e))}

\* The latest call is ValidateYAMLBlockType on a variable or locals block of
\* a body of the adapter.
RestrictedBlockCall ==
  /\ last.op = "ValidateYAMLBlockType"
  /\ FromAdapter(last.body)
  /\ last.Type \in {StrLocals, StrVariable}

\* C15 as stated: the subject of the "Locals not supported in YAML" and
\* "Variables not supported in YAML" diagnostics starts on the line of the
\* block-defining key (locals: / variable:).
C15_SubjectAtBlockKeyLine ==
  RestrictedBlockCall =>
    /\ Len(last.diags) = 1
    /\ \A e \in BlockEntries(bodies[last.body], last.block) :
         last.diags[1].Subject.Start.Line
           = D.nodes[EntryKeys(bodies[last.body])[e]].Line

\* C15, amended: the subject of these diagnostics is the block's definition
\* range, the range of the block's body node: it starts at the line and
\* column of the first token of the block's content, which is never before
\* the block-defining key and is on a later line whenever the content starts
\* on a line after the key's.
C15_SubjectAtBlockContent ==
  RestrictedBlockCall =>
    /\ Len(last.diags) = 1
    /\ last.diags[1].Subject = last.block.DefRange
    /\ last.diags[1].Subject.Start.Line = D.nodes[last.block.Body.node].Line
    /\ last.diags[1].Subject.Start.Column = D.nodes[last.block.Body.node].Column
    /\ \A e \in BlockEntries(bodies[last.body], last.block) :
         last.diags[1].Subject.Start.Line
           >= D.nodes[EntryKeys(bodies[last.body])[e]].Line

\* A locals block in a later document of a stream: the diagnostic starts on
\* the line after the locals key.
C15_Witness ==
  /\ RestrictedBlockCall
  /\ last.Type = StrLocals
  /\ last.body > 1
  /\ \E e \in BlockEntries(bodies[last.body], last.block) :
       last.diags[1].Subject.Start.Line
         = D.nodes[EntryKeys(bodies[last.body])[e]].Line + 1

\* The sequences of keys taken when descending from node v through one
\* mapping level per label to the node n, or to a sequence holding n.
RECURSIVE DescentKeys(_, _, _)
DescentKeys(v, labels, n) ==
  IF labels = <<>>
  THEN IF v = n \/ (D.nodes[v].Kind = "Sequence" /\ n \in Range(D.nodes[v].Content))
       THEN {<<>>} ELSE {}
  ELSE IF D.nodes[v].Kind # "Mapping" THEN {}
  ELSE UNION {
         {<<D.nodes[v].Content[2 * e - 1]>> \o rest :
            rest \in DescentKeys(D.nodes[v].Content[2 * e], Tail(labels), n)} :
         e \in {x \in 1..(Len(D.nodes[v].Content) \div 2) :
                  D.nodes[D.nodes[v].Content[2 * x - 1]].Value = Head(labels)}}

\* The block has the ranges of the nodes it was unpacked from.
BlockRangesFromNodes(b, block) ==
  /\ block.DefRange = nodeRange(D, block.Body.node)
  /\ block.DefRange.Start.Line = D.nodes[block.Body.node].Line
  /\ block.DefRange.Start.Column = D.nodes[block.Body.node].Column
  /\ Len(block.LabelRanges) = Len(block.Labels)
  /\ \E e \in BlockEntries(b, block) :
       /\ block.TypeRange = nodeRange(D, EntryKeys(b)[e])
       /\ \E keys \in DescentKeys(EntryValue(b, e), block.Labels, block.Body.node) :
            \A i \in 1..Len(keys) : block.LabelRanges[i] = nodeRange(D, keys[i])

\* C16: every block produced by unpacking has its definition range equal to
\* the range of its body node (it starts at the first line of the block's
\* content, also in a later document of a stream), its type range equal to
\* the range of the block-type key, and its i-th label range equal to the
\* range of the key taken at the i-th descent step.
C16_BlockRanges ==
  ContentCall =>
    \A k \in 1..Len(last.content.Blocks) :
      BlockRangesFromNodes(bodies[last.body], last.content.Blocks[k])

\* Blocks with labels unpacked from a later document of a stream, the
\* content starting below the block-type key.
C16_Witness ==
  /\ ContentCall
  /\ last.body > 1
  /\ \E k \in 1..Len(last.content.Blocks) :
       /\ Len(last.content.Blocks[k].Labels) >= 1
       /\ last.content.Blocks[k].DefRange.Start.Line
            > last.content.Blocks[k].TypeRange.Start.Line

\* ------------------------------------------------------------------------
\* The range utilities on every node of every document (SpecRange)
\* ------------------------------------------------------------------------

\* Every document of Docs and every stream of Streams.
InitRange ==
  /\ docId \in 1..(Len(Docs) + Len(Streams))
  /\ bodies = <<>>
  /\ derived = <<>>
  /\ maps = <<>>
  /\ last = NoCall

\* r := nodeRange(n, filename, src)
DoNodeRange(n) ==
  /\ last = NoCall
  /\ last' = [op |-> "nodeRange", node |-> n, range |-> nodeRange(D, n)]
  /\ UNCHANGED <<docId, bodies, derived, maps>>

\* r := nodeStartRange(n, filename, src)
DoNodeStartRange(n) ==
  /\ last = NoCall
  /\ last' = [op |-> "nodeStartRange", node |-> n, range |-> nodeStartRange(D, n)]
  /\ UNCHANGED <<docId, bodies, derived, maps>>

\* r := rangeBetween(key, value, filename, src) for the e-th entry of mapping m
DoRangeBetween(m, e) ==
  /\ last = NoCall
  /\ D.nodes[m].Kind = "Mapping"
  /\ 2 * e <= Len(D.nodes[m].Content)
  /\ last' = [op |-> "rangeBetween", key |-> D.nodes[m].Content[2 * e - 1],
              value |-> D.nodes[m].Content[2 * e],
              range |-> rangeBetween(D, D.nodes[m].Content[2 * e - 1],
                                     D.nodes[m].Content[2 * e])]
  /\ UNCHANGED <<docId, bodies, derived, maps>>

NextRange ==
  \/ \E n \in 0..Len(D.nodes) : DoNodeRange(n)
  \/ \E n \in 0..Len(D.nodes) : DoNodeStartRange(n)
  \/ \E m \in 1..Len(D.nodes), e \in 1..4 : DoRangeBetween(m, e)
  \/ Done

SpecRange == InitRange /\ [][NextRange]_vars

\* ------------------------------------------------------------------------
\* The offset conversions on small buffers (SpecOffset)
\* ------------------------------------------------------------------------

\* The longest buffer.
MaxSrcLen == 5

\* The bytes of the buffers: a newline and another byte.
SrcBytes == {"\n", "a"}

\* A caller holds a buffer, grown one byte at a time.
DoAppendByte(c) ==
  /\ last.op \in {"none", "src"}
  /\ Len(IF last.op = "src" THEN last.src ELSE <<>>) < MaxSrcLen
  /\ last' = [op |-> "src", src |-> (IF last.op = "src" THEN last.src ELSE <<>>) \o <<c>>]
  /\ UNCHANGED <<docId, bodies, derived, maps>>

\* line, col := lineColForByteOffset(src, offset);
\* back := byteOffsetForLineCol(src, line, col)
DoRoundTrip(offset) ==
  /\ last.op \in {"none", "src"}
  /\ offset <= Len(IF last.op = "src" THEN last.src ELSE <<>>) + 1
  /\ \E src \in {IF last.op = "src" THEN last.src ELSE <<>>} :
       \E lc \in {lineColForByteOffset(src, offset)} :
          last' = [op |-> "roundTrip", src |-> src, offset |-> offset,
                   line |-> lc.line, col |-> lc.col,
                   back |-> byteOffsetForLineCol(src, lc.line, lc.col)]
  /\ UNCHANGED <<docId, bodies, derived, maps>>

NextOffset ==
  \/ \E c \in SrcBytes : DoAppendByte(c)
  \/ \E offset \in 0..(MaxSrcLen + 1) : DoRoundTrip(offset)
  \/ Done

\* The conversions read no document: one is fixed.
InitOffset == Init /\ docId = 1

SpecOffset == InitOffset /\ [][NextOffset]_vars

\* ------------------------------------------------------------------------
\* Claims about positions and ranges
\* ------------------------------------------------------------------------

\* The latest call is a call of the body adapter that returns diagnostics, on
\* a body that comes from parseYAML or from a block below one.
AdapterCall == last.op \in {"PartialContent", "Content", "JustAttributes"}

\* pos is a position of the buffer: 1-based line and column, and the 0-based
\* byte offset that has Line - 1 newlines before it and lies Column - 1 bytes
\* after the last of them (after the start of the buffer when there is none).
ValidPos(src, pos) ==
  /\ pos.Line >= 1
  /\ pos.Column >= 1
  /\ pos.Byte \in 0..Len(src)
  /\ Cardinality({j \in 1..pos.Byte : src[j] = "\n"}) = pos.Line - 1
  /\ \A j \in (pos.Byte - pos.Column + 2)..pos.Byte : src[j] # "\n"
  /\ pos.Byte - pos.Column + 1 = 0 \/ src[pos.Byte - pos.Column + 1] = "\n"

\* C17 (under SpecParse): every source range attached as the subject of a
\* diagnostic by the body adapter (Content, PartialContent, JustAttributes,
\* block unpacking), for any body returned by parseYAML, the synthesized
\* empty one included, starts at a line >= 1 and a column >= 1, and its byte
\* offset is the offset of that line and column in the source.
C17_SubjectsAreValidPositions ==
  AdapterCall =>
    \A k \in 1..Len(last.diags) :
      last.diags[k].Subject # NoSubject => ValidPos(D.src, last.diags[k].Subject.Start)

\* The latest call returned a range of a node or of a mapping entry.
RangeCall == last.op \in {"nodeRange", "rangeBetween"}

\* C18 (under SpecRange): for every node of a parsed tree (scalar, mapping,
\* sequence, document, alias; empty collections included), nodeRange starts
\* at a byte not after the byte it ends at, and so does rangeBetween(key,
\* value) for every mapping entry.
C18_RangesStartBeforeEnd ==
  RangeCall => last.range.Start.Byte <= last.range.End.Byte

\* The range of an entry whose value is an alias or an empty collection.
C18_Witness ==
  /\ last.op = "rangeBetween"
  /\ \/ D.nodes[last.value].Kind = "Alias"
     \/ D.nodes[last.value].Kind \in {"Mapping", "Sequence"}
        /\ D.nodes[last.value].Content = <<>>
  /\ last.range.Start.Byte < last.range.End.Byte

\* C19 (under SpecOffset): for every buffer src and every byte offset x with
\* 0 <= x <= len(src), byteOffsetForLineCol(src, lineColForByteOffset(src,
\* x)) = x.
C19_OffsetRoundTrip ==
  (last.op = "roundTrip" /\ last.offset <= Len(last.src)) => last.back = last.offset

\* The end of a buffer that ends with a newline, on its second line or later.
C19_Witness ==
  /\ last.op = "roundTrip"
  /\ last.src # <<>>
  /\ last.offset = Len(last.src)
  /\ last.src[Len(last.src)] = "\n"
  /\ last.line >= 2
  /\ last.back = last.offset

\* The latest call is nodeRange on a scalar node.
ScalarRangeCall ==
  /\ last.op = "nodeRange"
  /\ last.node # Nil
  /\ D.nodes[last.node].Kind = "Scalar"

\* The length of the scalar's value, with its two quotes when it is quoted.
WrittenLen(node) ==
  Len(node.Value) + (IF node.Style \in {"double", "single"} THEN 2 ELSE 0)

\* C20 as stated (under SpecRange): for every scalar node, the byte width of
\* nodeRange (end byte minus start byte) is len(value) + 2 when the scalar is
\* single- or double-quoted and len(value) otherwise.
C20_ScalarWidth ==
  ScalarRangeCall =>
    last.range.End.Byte - last.range.Start.Byte = WrittenLen(D.nodes[last.node])

\* C20, amended: the width is len(value) (+ 2 when quoted) unless that many
\* bytes do not remain in the source after the start byte; the range then
\* ends at the end of the source and the width is the number of bytes that
\* remain.
C20_ScalarWidthCapped ==
  ScalarRangeCall =>
    last.range.End.Byte - last.range.Start.Byte
      = (IF last.range.Start.Byte + WrittenLen(D.nodes[last.node]) > Len(D.src)
         THEN Len(D.src) - last.range.Start.Byte
         ELSE WrittenLen(D.nodes[last.node]))

\* A quoted scalar whose value and quotes are longer than what remains of the
\* source: the range ends at the end of the source.
C20_Witness ==
  /\ ScalarRangeCall
  /\ D.nodes[last.node].Style = "double"
  /\ last.range.Start.Byte + WrittenLen(D.nodes[last.node]) > Len(D.src)
  /\ last.range.End.Byte = Len(D.src)

\* ------------------------------------------------------------------------
\* The adapter over trees built by hand (SpecBuilt)
\* ------------------------------------------------------------------------

\* body := yamlbody.NewBody(node, filename, src), node nil or built by hand.
InitBuilt ==
  /\ docId \in (Len(Docs) + Len(Streams) + 1)..(Len(Docs) + Len(Streams) + Len(BuiltTrees))
  /\ bodies = <<NewBody(D, D.root)>>
  /\ derived = <<[how |-> "NewBody", from |-> 0]>>
  /\ maps = <<>>
  /\ last = NoCall

NextBuilt ==
  \/ \E i \in YAMLBodies, schema \in SchemasFor(docId) : DoPartialContent(i, schema)
  \/ \E i \in YAMLBodies, schema \in SchemasFor(docId) : DoContent(i, schema)
  \/ \E i \in YAMLBodies : DoJustAttributes(i)
  \/ \E name \in AttrsReturned, ctx \in 0..Len(Ctxs) : DoValue(name, ctx)
  \/ \E name \in AttrsReturned : DoVariables(name)
  \/ Done

SpecBuilt == InitBuilt /\ [][NextBuilt]_vars

\* The latest call is Value on a scalar node.
ScalarValue == last.op = "Value" /\ D.nodes[last.src].Kind = "Scalar"

\* C24 (under SpecBuilt): Value(ctx) of a scalar node is null, for every
\* context (nil included), whenever the node is tagged !!null, or its text is
\* `null` or `~`, or its text is empty and it carries no tag.
C24_NullScalars ==
  (/\ ScalarValue
   /\ \/ D.nodes[last.src].Tag = "!!null"
      \/ D.nodes[last.src].Value \in {StrNull, StrTilde}
      \/ D.nodes[last.src].Value = <<>> /\ D.nodes[last.src].Tag = "")
    => last.val = CtyNull

\* The latest call is a body operation on a body whose node is nil, with a
\* schema without required attributes where it takes one.
NilBodyCall ==
  /\ last.op \in {"Content", "PartialContent", "JustAttributes"}
  /\ bodies[last.body].node = Nil
  /\ ContentCall => NoRequired(last.schema)

\* What the latest body operation returned holds no attribute and no block.
EmptyResult ==
  IF ContentCall
  THEN last.content.Attributes = <<>> /\ last.content.Blocks = <<>>
  ELSE last.attrs = <<>>

\* C28 (under SpecBuilt): on a body whose node is nil, each of Content,
\* PartialContent (schema without required attributes) and JustAttributes
\* returns an empty result together with exactly one diagnostic.
C28_NilRootOneDiagnostic ==
  NilBodyCall => (EmptyResult /\ Len(last.diags) = 1)

\* ------------------------------------------------------------------------
\* The front door, the adapter and the expressions together (SpecFront)
\* ------------------------------------------------------------------------

\* Node m is node n or lies below it (Content links only).
RECURSIVE Contains(_, _, _)
Contains(S, n, m) ==
  \/ n = m
  \/ \E i \in 1..Len(S.nodes[n].Content) : Contains(S, S.nodes[n].Content[i], m)

\* Some alias of S lies inside the node it stands for.
SelfReferring(S) ==
  \E n \in 1..Len(S.nodes) :
    /\ S.nodes[n].Kind = "Alias"
    /\ S.nodes[n].Alias # Nil
    /\ Contains(S, S.nodes[n].Alias, n)

\* The streams of SpecFront: those on which every call returns (see
\* SpecEval for the others).
InitFront == InitParse /\ ~SelfReferring(D)

NextFront ==
  \/ DoParseYAML
  \/ \E i \in YAMLBodies, schema \in SchemasFor(docId) : DoPartialContent(i, schema)
  \/ \E i \in YAMLBodies, schema \in SchemasFor(docId) : DoContent(i, schema)
  \/ \E i \in YAMLBodies : DoJustAttributes(i)
  \/ \E k \in 1..3 : EnterBlock(k)
  \/ \E name \in AttrsReturned, ctx \in 0..Len(Ctxs) : DoValue(name, ctx)
  \/ \E name \in AttrsReturned : DoVariables(name)
  \/ \E i \in 1..Len(bodies) : \E block \in BlocksOf(i) : DoValidateYAMLBlockType(i, block)
  \/ Done

SpecFront == InitFront /\ [][NextFront]_vars

\* ------------------------------------------------------------------------
\* Claims about block unpacking
\* ------------------------------------------------------------------------

\* A scalar that unpackBlock takes for null.
IsNullScalar(v) ==
  /\ D.nodes[v].Kind = "Scalar"
  /\ \/ D.nodes[v].Tag = "!!null"
     \/ D.nodes[v].Value \in {StrNull, StrTilde, <<>>}

\* The places where block content is due in body b under schema: for each
\* block-type key that is not hidden, in mapping order, each path through as
\* many label levels as the type declares, with the labels collected and the
\* node reached.
BlockPaths(b, schema) ==
  LET keys == EntryKeys(b)
      ofKey(i) ==
        IF /\ KeyName(keys[i]) \in BlockTypes(schema) \ AttrNames(schema)
           /\ KeyName(keys[i]) \notin Hidden(maps, b)
        THEN LET paths == LabelPaths(EntryValue(b, i),
                                     LabelCount(schema, KeyName(keys[i])))
             IN  [k \in 1..Len(paths) |->
                    [Type |-> KeyName(keys[i]), key |-> keys[i],
                     labels |-> paths[k].labels, leaf |-> paths[k].leaf]]
        ELSE <<>>
  IN  Concat([i \in 1..Len(keys) |-> ofKey(i)])

\* The diagnostics of the latest call whose subject starts where node v starts.
DiagsAt(v) ==
  SelectSeq(last.diags, LAMBDA d : d.Subject = nodeStartRange(D, v))

\* C21 (under SpecFront): when block unpacking reaches, with no labels
\* remaining, a null scalar (tag !!null, or text `null`, `~` or empty), the
\* result contains a block of that type with the collected labels and empty
\* content, and no diagnostic is emitted for it.
C21_NullBodyGivesEmptyBlock ==
  ContentCall =>
    \A p \in Range(BlockPaths(bodies[last.body], last.schema)) :
      IsNullScalar(p.leaf) =>
        /\ \E k \in 1..Len(last.content.Blocks) :
             /\ last.content.Blocks[k].Type = p.Type
             /\ last.content.Blocks[k].Labels = p.labels
             /\ collectAttrs(D, last.content.Blocks[k].Body) = <<>>
        /\ DiagsAt(p.leaf) = <<>>

\* The blocks of the latest content from position o + 1 on are, one per node
\* of items and in that order, blocks of the given type and labels over those
\* nodes.
BlocksRun(o, items, type, labels) ==
  /\ o + Len(items) <= Len(last.content.Blocks)
  /\ \A j \in 1..Len(items) :
       /\ last.content.Blocks[o + j].Type = type
       /\ last.content.Blocks[o + j].Labels = labels
       /\ last.content.Blocks[o + j].Body.node = items[j]

\* The number of blocks of the latest content whose body is node n.
BlocksOver(n) ==
  Cardinality({k \in 1..Len(last.content.Blocks) : last.content.Blocks[k].Body.node = n})

\* The latest call is a body operation on the body of a block whose node is
\* not a mapping (an item of a sequence-valued block body).
NonMappingItemCall ==
  /\ last.op \in {"Content", "PartialContent", "JustAttributes"}
  /\ derived[last.body].how = "Block"
  /\ D.nodes[bodies[last.body].node].Kind # "Mapping"

\* C22 (under SpecFront): for a sequence-valued block body, unpacking emits
\* exactly one block per element, in element order, with no diagnostic at
\* unpack time; and when an element is not a mapping, each of Content,
\* PartialContent and JustAttributes on that block's body yields an
\* "Incorrect YAML value type" diagnostic.
C22_SequenceElementsValidatedLazily ==
  /\ ContentCall =>
       \A p \in Range(BlockPaths(bodies[last.body], last.schema)) :
         D.nodes[p.leaf].Kind = "Sequence" =>
           /\ \E o \in 0..Len(last.content.Blocks) :
                BlocksRun(o, D.nodes[p.leaf].Content, p.Type, p.labels)
           /\ \A j \in 1..Len(D.nodes[p.leaf].Content) :
                /\ BlocksOver(D.nodes[p.leaf].Content[j]) = 1
                /\ DiagsAt(D.nodes[p.leaf].Content[j]) = <<>>
           /\ DiagsAt(p.leaf) = <<>>
  /\ NonMappingItemCall =>
       DiagsOf(last.diags, "Incorrect YAML value type") # <<>>

\* The nodes met below v while n label levels are still due that are not
\* mappings, depth first and in mapping order.
RECURSIVE StuckUnder(_, _)
StuckUnder(v, n) ==
  IF n = 0 THEN <<>>
  ELSE IF D.nodes[v].Kind # "Mapping" THEN <<v>>
  ELSE Concat([i \in 1..(Len(D.nodes[v].Content) \div 2) |->
                 StuckUnder(D.nodes[v].Content[2 * i], n - 1)])

\* The same for every block-type key of body b that is not hidden.
StuckNodes(b, schema) ==
  LET keys == EntryKeys(b)
      ofKey(i) ==
        IF /\ KeyName(keys[i]) \in BlockTypes(schema) \ AttrNames(schema)
           /\ KeyName(keys[i]) \notin Hidden(maps, b)
        THEN StuckUnder(EntryValue(b, i), LabelCount(schema, KeyName(keys[i])))
        ELSE <<>>
  IN  Concat([i \in 1..Len(keys) |-> ofKey(i)])

\* The scalars that are not null reached with no labels remaining.
ScalarLeaves(b, schema) ==
  SelectSeq(BlockPaths(b, schema),
            LAMBDA p : D.nodes[p.leaf].Kind = "Scalar" /\ ~IsNullScalar(p.leaf))

\* No block of the latest content has its body at or below node v.
NoBlockUnder(v) ==
  \A k \in 1..Len(last.content.Blocks) :
    last.content.Blocks[k].Body.node \notin NodesUnder(v)

\* The schema attributes among the entries of body b that are not hidden.
AttrKeysPresent(b, schema) ==
  {KeyName(EntryKeys(b)[i]) : i \in 1..Len(EntryKeys(b))}
    \cap (AttrNames(schema) \ Hidden(maps, b))

\* C23 (under SpecFront): during block unpacking a value that is not a
\* mapping while labels remain yields exactly one "Missing block label"
\* diagnostic at that node and no block for that branch; a scalar that is not
\* null reached with no labels remaining yields exactly one "Incorrect YAML
\* value type" diagnostic at it; and the sibling entries of the same mapping
\* and the later entries of the body are still processed: every block due
\* under every block-type key and every attribute of the schema is returned.
C23_UnpackErrorsAreLocal ==
  ContentCall =>
    /\ \A v \in Range(StuckNodes(bodies[last.body], last.schema)) :
         /\ Len(DiagsOf(DiagsAt(v), "Missing block label")) = 1
         /\ NoBlockUnder(v)
    /\ Len(DiagsOf(last.diags, "Missing block label"))
         = Len(StuckNodes(bodies[last.body], last.schema))
    /\ \A p \in Range(ScalarLeaves(bodies[last.body], last.schema)) :
         /\ Len(DiagsOf(DiagsAt(p.leaf), "Incorrect YAML value type")) = 1
         /\ NoBlockUnder(p.leaf)
    /\ Len(DiagsOf(last.diags, "Incorrect YAML value type"))
         = Len(ScalarLeaves(bodies[last.body], last.schema))
    /\ [k \in 1..Len(last.content.Blocks) |->
          [Type   |-> last.content.Blocks[k].Type,
           Labels |-> last.content.Blocks[k].Labels,
           node   |-> last.content.Blocks[k].Body.node]]
         = ExpectedBlocks(bodies[last.body], last.schema)
    /\ DOMAIN last.content.Attributes
         = AttrKeysPresent(bodies[last.body], last.schema)

\* One call that meets a scalar where a label is due before a sibling that
\* has blocks, and a scalar where content is due before later block-type
\* keys: both are reported and the later blocks are returned.
C23_Witness ==
  /\ ContentCall
  /\ \E v \in Range(StuckNodes(bodies[last.body], last.schema)) :
       \E k \in 1..Len(last.content.Blocks) :
         /\ D.nodes[last.content.Blocks[k].Body.node].Line > D.nodes[v].Line
         /\ last.content.Blocks[k].DefRange.Start.Column > D.nodes[v].Column
  /\ ScalarLeaves(bodies[last.body], last.schema) # <<>>
  /\ Len(DiagsOf(last.diags, "Missing block label")) >= 2
  /\ Len(DiagsOf(last.diags, "Incorrect YAML value type")) = 1
  /\ Len(last.content.Blocks) >= 4

\* ------------------------------------------------------------------------
\* Claims about duplicate keys and about the bodies' nodes
\* ------------------------------------------------------------------------

\* The pairs <<earlier key, later key>> of entries of mapping node m that
\* have the same key text; val(key) is the value node that follows a key.
DuplicateKeys(m) ==
  LET c == D.nodes[m].Content
  IN  {<<c[2 * i - 1], c[2 * j - 1]>> :
         <<i, j>> \in {p \in (1..(Len(c) \div 2)) \X (1..(Len(c) \div 2)) :
                         /\ p[1] < p[2]
                         /\ D.nodes[c[2 * p[1] - 1]].Value = D.nodes[c[2 * p[2] - 1]].Value}}

\* A diagnostic of the latest call has the range of key node k as subject.
DiagAtKey(k) ==
  \E i \in 1..Len(last.diags) : last.diags[i].Subject = nodeRange(D, k)

\* The mappings met below v while n label levels are still due.
RECURSIVE LabelLevels(_, _)
LabelLevels(v, n) ==
  IF n = 0 \/ D.nodes[v].Kind # "Mapping" THEN {}
  ELSE {v} \cup UNION {LabelLevels(D.nodes[v].Content[2 * i], n - 1) :
                         i \in 1..(Len(D.nodes[v].Content) \div 2)}

\* The same for every block-type key of body b that is not hidden.
LabelLevelsOf(b, schema) ==
  UNION {LabelLevels(EntryValue(b, i), LabelCount(schema, KeyName(EntryKeys(b)[i]))) :
           i \in {i \in 1..Len(EntryKeys(b)) :
                    /\ KeyName(EntryKeys(b)[i]) \in BlockTypes(schema) \ AttrNames(schema)
                    /\ KeyName(EntryKeys(b)[i]) \notin Hidden(maps, b)}}

\* The keys of its body that the latest body operation looks at: those the
\* schema names (Content, PartialContent), all but the comment key
\* (JustAttributes); never the hidden ones.
KeysProcessed ==
  {k \in Range(EntryKeys(bodies[last.body])) :
     /\ KeyName(k) \notin Hidden(maps, bodies[last.body])
     /\ IF ContentCall THEN KeyName(k) \in SchemaNames(last.schema)
        ELSE KeyName(k) # StrComment}

\* C25 (under SpecFront): whenever a mapping with two entries of the same key
\* is processed by the adapter (as a body by Content, PartialContent or
\* JustAttributes, as a label level during block unpacking, or as a value by
\* Value), a diagnostic is emitted whose subject is the range of the later
\* key, and the earlier entry is the one retained in the result.
C25_DuplicateKeysReported ==
  /\ AdapterCall =>
       \A d \in DuplicateKeys(bodies[last.body].node) \cap (KeysProcessed \X KeysProcessed) :
         /\ DiagAtKey(d[2])
         /\ last.op = "JustAttributes" =>
              last.attrs[KeyName(d[1])].NameRange = nodeRange(D, d[1])
         /\ (ContentCall /\ KeyName(d[1]) \in AttrNames(last.schema)) =>
              last.content.Attributes[KeyName(d[1])].NameRange = nodeRange(D, d[1])
  /\ ContentCall =>
       \A m \in LabelLevelsOf(bodies[last.body], last.schema) :
         \A d \in DuplicateKeys(m) : DiagAtKey(d[2])
  /\ (last.op = "Value" /\ D.nodes[last.src].Kind = "Mapping") =>
       \A d \in DuplicateKeys(last.src) :
         /\ DiagAtKey(d[2])
         /\ last.val.ty = "object"
         /\ last.val.v[KeyName(d[1])]
              = Value(D, CHOOSE v \in 1..Len(D.nodes) :
                           \E i \in 1..(Len(D.nodes[last.src].Content) \div 2) :
                             /\ D.nodes[last.src].Content[2 * i - 1] = d[1]
                             /\ D.nodes[last.src].Content[2 * i] = v,
                      last.ctx).val

\* Body i is a body parseYAML made with NewBody, or a remainder of one.
RECURSIVE RootDerived(_)
RootDerived(i) ==
  \/ derived[i].how = "NewBody"
  \/ derived[i].how = "PartialContent" /\ RootDerived(derived[i].from)

\* The document nodes parseYAML passes to NewBody: those the decoder yields
\* and the one it builds for input without documents.
DocumentRoots ==
  {r \in Range(D.docs) \cup {Len(D.nodes) - 1} : r # 0 /\ D.nodes[r].Kind = "Document"}

C29_EveryBodyIsYAMLBody ==
  /\ \A i \in 1..Len(bodies) : IsYAMLBody(bodies[i])
  /\ ContentCall =>
       \A k \in 1..Len(last.content.Blocks) : IsYAMLBody(last.content.Blocks[k].Body)
  /\ (last.op = "ValidateYAMLBlockType" /\ last.Type \in {StrLocals, StrVariable}) =>
       Len(last.diags) = 1

\* A locals block inside the body of a block that is an item of a sequence:
\* the gatekeeper reports it.
C29_Witness ==
  /\ last.op = "ValidateYAMLBlockType"
  /\ last.Type = StrLocals
  /\ derived[last.body].how = "Block"
  /\ \E n \in 1..Len(D.nodes) :
       D.nodes[n].Kind = "Sequence" /\ bodies[last.body].node \in Range(D.nodes[n].Content)
  /\ \E i \in 1..Len(bodies) : derived[i].how = "PartialContent"
  /\ Len(last.diags) = 1

\* The keys of the body of the latest call that match a block type of its
\* schema and were not hidden from it.
BlockTypeKeys ==
  {k \in 1..Len(EntryKeys(bodies[last.body])) :
     /\ KeyName(EntryKeys(bodies[last.body])[k])
          \in BlockTypes(last.schema) \ AttrNames(last.schema)
     /\ KeyName(EntryKeys(bodies[last.body])[k]) \notin Hidden(maps, bodies[last.body])}

\* The latest call returned a block for entry k of its body, or a diagnostic
\* at a node of that entry's value.
BlockOrDiagnostic(k) ==
  \/ \E j \in 1..Len(last.content.Blocks) :
       last.content.Blocks[j].TypeRange = nodeRange(D, EntryKeys(bodies[last.body])[k])
  \/ \E v \in NodesUnder(EntryValue(bodies[last.body], k)) : DiagsAt(v) # <<>>

\* C30 (under SpecFront): for every key of the body that matches a block
\* type of the schema, PartialContent returns at least one block of that type
\* or at least one diagnostic for it (an empty mapping where labels are due
\* and an alias as block body included), and the key is among the hidden
\* names of the remainder, so that Content on the remainder does not report
\* it as extraneous.
C30_BlockKeyNeverSilent ==
  /\ last.op = "PartialContent" =>
       \A k \in BlockTypeKeys :
         /\ BlockOrDiagnostic(k)
         /\ last.remain # 0 =>
              KeyName(EntryKeys(bodies[last.body])[k]) \in Hidden(maps, bodies[last.remain])
  /\ last.op = "Content" =>
       \A i \in 1..Len(last.diags) :
         last.diags[i].Summary = "Extraneous YAML property"
           => last.diags[i].Name \notin Hidden(maps, bodies[last.body])

\* ------------------------------------------------------------------------
\* Value and Variables call by call (SpecEval): each call of the recursion
\* is a frame on the goroutine's stack, so that a recursion that does not
\* return can be observed.
\* ------------------------------------------------------------------------

\* The deepest recursion the goroutine's stack holds; one call more is the
\* runtime's fatal "stack overflow".
MaxDepth == 12

\* The nodes Value and Variables call themselves on from node n, in the
\* order of the calls: the target of an alias, the items of a sequence, the
\* key and the value of each entry of a mapping.
Callees(n) ==
  CASE D.nodes[n].Kind = "Alias" ->
         IF D.nodes[n].Alias # Nil THEN <<D.nodes[n].Alias>> ELSE <<>>
    [] D.nodes[n].Kind = "Sequence" -> D.nodes[n].Content
    [] D.nodes[n].Kind = "Mapping" ->
         SubSeq(D.nodes[n].Content, 1, 2 * (Len(D.nodes[n].Content) \div 2))
    [] OTHER -> <<>>

Frame(n) == [node |-> n, called |-> 0]

\* attrs[name].Expr.Value(ctx) is called.
BeginValue(name, ctx) ==
  /\ last.op = "JustAttributes"
  /\ name \in DOMAIN last.attrs
  /\ last' = [op |-> "eval", fn |-> "Value", body |-> last.body, name |-> name,
              src |-> last.attrs[name].Expr, ctx |-> ctx,
              stack |-> <<Frame(last.attrs[name].Expr)>>, visits |-> 1,
              status |-> "running"]
  /\ UNCHANGED <<docId, bodies, derived, maps>>

\* attrs[name].Expr.Variables() is called.
BeginVariables(name) ==
  /\ last.op = "JustAttributes"
  /\ name \in DOMAIN last.attrs
  /\ last' = [op |-> "eval", fn |-> "Variables", body |-> last.body, name |-> name,
              src |-> last.attrs[name].Expr, ctx |-> Nil,
              stack |-> <<Frame(last.attrs[name].Expr)>>, visits |-> 1,
              status |-> "running"]
  /\ UNCHANGED <<docId, bodies, derived, maps>>

\* The call on top of the stack makes its next call, or returns to its
\* caller when it has none left to make.
EvalStep ==
  /\ last.op = "eval"
  /\ last.status = "running"
  /\ LET depth == Len(last.stack)
         top   == last.stack[depth]
         calls == Callees(top.node)
     IN  IF top.called < Len(calls)
         THEN IF depth = MaxDepth
              THEN last' = [last EXCEPT !.status = "stack overflow"]
              ELSE last' = [last EXCEPT
                              !.stack = Append([@ EXCEPT ![depth].called = @ + 1],
                                               Frame(calls[top.called + 1])),
                              !.visits = @ + 1]
         ELSE last' = [last EXCEPT
                         !.stack = SubSeq(@, 1, depth - 1),
                         !.status = IF depth = 1 THEN "returned" ELSE "running"]
  /\ UNCHANGED <<docId, bodies, derived, maps>>

\* The caller goes on with what a call returned (a call that has not
\* returned has no caller to go on).
EvalDone ==
  /\ last # NoCall
  /\ last.op = "eval" => last.status = "returned"
  /\ last' = NoCall
  /\ UNCHANGED <<docId, bodies, derived, maps>>

NextEval ==
  \/ DoParseYAML
  \/ \E i \in YAMLBodies : DoJustAttributes(i)
  \/ \E name \in AttrsReturned, ctx \in 0..Len(Ctxs) : BeginValue(name, ctx)
  \/ \E name \in AttrsReturned : BeginVariables(name)
  \/ EvalStep
  \/ EvalDone

\* A call that can take a step takes it: the goroutine runs.
SpecEval == InitParse /\ [][NextEval]_vars /\ WF_vars(EvalStep)

\* C27 (under SpecEval): Value(ctx) and Variables() terminate on every node
\* graph the front door can produce, graphs in which the target of an alias
\* contains that alias included: every call is followed by its return.
C27_EvaluationTerminates ==
  (last.op = "eval" /\ last.status = "running")
    ~> (last.op = "eval" /\ last.status = "returned")

=============================================================================
